---- MODULE Spec2Model ----
(***************************************************************************)
(* Weekend planner: the five-stage agent pipeline of app.py (parse, plan,  *)
(* discover, curate, summarize), each stage's JSON extraction and          *)
(* fallback, the currency lookup and the cost estimate of the budget tool, *)
(* the address lookup of the venue tools and the task wiring of the crew.  *)
(*                                                                         *)
(* Texts (user input, reasoning-service responses) are sequences of atoms: *)
(* the fence marker, the "json" tag, whitespace, prose words and JSON      *)
(* payloads.  Python values are records with a "kind" and, for dicts, the  *)
(* set "has" of the keys present.  Ratings are in tenths (45 is 4.5).      *)
(***************************************************************************)
EXTENDS Integers, Sequences, FiniteSets, TLC

(***************************************************************************)
(* The fields of the records below, in the order every record lists them   *)
(***************************************************************************)
Fields ==
  [activities_with_costs |-> "budget result: one cost entry per activity",
   address |-> "venue: its street address",
   analysis |-> "what analyze_itinerary_budget returned",
   breakdown |-> "budget analysis: one item per activity",
   called |-> "whether the stage function invoked the reasoning service",
   categories |-> "SearchStrategy: the categories to search",
   category |-> "cost estimate: the cost category",
   content |-> "message: its text",
   context |-> "ParsedIntent: free-text context",
   cost_display |-> "cost entry: the cost as shown",
   curation_notes |-> "CurationResult: the rationale",
   currency |-> "currency table: symbol and code",
   date |-> "ParsedIntent: the date phrase",
   details |-> "activity: its description",
   doc |-> "venues_json: the JSON document it holds, list or object",
   error |-> "enrichment result: the failure text",
   exc |-> "the exception a stage function raised, or none",
   google |-> "GOOGLE_API_KEY is set",
   google_page |-> "what the search engine answered for a venue",
   group_size |-> "budget call: the number of people",
   has |-> "the keys a dict holds",
   interests |-> "ParsedIntent: the interests",
   items |-> "the elements of a list",
   key |-> "currency table: the city, lower case",
   kind |-> "dict, list, number or none",
   location |-> "ParsedIntent: the city",
   lookups |-> "the pages the lookups of a tool call met, one pair per venue",
   max_cost |-> "cost estimate: upper end of the range",
   max_per_person |-> "breakdown item: upper end per person",
   min_cost |-> "cost estimate: lower end of the range",
   min_per_person |-> "breakdown item: lower end per person",
   model |-> "the model a call went to",
   name |-> "activity: its name",
   none |-> "the value is None",
   nulls |-> "the keys a dict holds with value null",
   ok |-> "json.loads returned",
   openai |-> "OPENAI_API_KEY is set",
   out |-> "the value a tool returned",
   path |-> "the branch that produced a stage's value",
   pending |-> "a budget analysis was requested",
   phone |-> "venue: its phone number",
   priority |-> "SearchStrategy: the category to emphasize",
   raises |-> "the service call raises",
   rating |-> "activity: its rating, in tenths",
   reasoning |-> "SearchStrategy: the explanation",
   role |-> "message: user or assistant",
   selected |-> "CurationResult: the selection",
   stage |-> "the stage a call came from",
   text |-> "a text: a sequence of atoms",
   tool |-> "the tool that was called",
   total_cost_display |-> "budget result: the total as shown",
   total_max |-> "upper total",
   total_min |-> "lower total",
   type |-> "activity: restaurant, movie, outdoor or event",
   val |-> "the value returned",
   venues |-> "the venues of an enrichment call or result",
   website |-> "venue: its website",
   yelp_page |-> "what the directory answered for a venue"]

(***************************************************************************)
(* Bounds                                                                  *)
(***************************************************************************)
MaxRuns == 2

MaxCands == 6

MaxInterests == 2

(***************************************************************************)
(* Text: str.split, str.strip, the 'in' test                               *)
(***************************************************************************)
\* the triple-backtick marker
Fence == "<fence>"

JsonTag == "json"

Whitespace == {" ", "\n"}

\* needle occurs in s at position i
MatchAt(s, i, needle) ==
  /\ i >= 1
  /\ i + Len(needle) - 1 <= Len(s)
  /\ \A k \in 1..Len(needle) : s[i + k - 1] = needle[k]

\* first position >= from where needle occurs in s, 0 when there is none
Find(s, from, needle) ==
  LET hits == {i \in from..Len(s) : MatchAt(s, i, needle)}
  IN  IF hits = {} THEN 0 ELSE CHOOSE i \in hits : \A j \in hits : i <= j

\* needle in s
Contains(s, needle) == Find(s, 1, needle) # 0

\* s.split(needle)[0]
SplitPart0(s, needle) ==
  LET i == Find(s, 1, needle)
  IN  IF i = 0 THEN s ELSE SubSeq(s, 1, i - 1)

\* s.split(needle)[1], for a needle that occurs in s
SplitPart1(s, needle) ==
  LET i == Find(s, 1, needle)
      start == i + Len(needle)
      j == Find(s, start, needle)
  IN  IF j = 0 THEN SubSeq(s, start, Len(s)) ELSE SubSeq(s, start, j - 1)

\* s.strip()
Strip(s) ==
  LET keep == {i \in 1..Len(s) : s[i] \notin Whitespace}
  IN  IF keep = {} THEN <<>>
      ELSE LET lo == CHOOSE i \in keep : \A j \in keep : i <= j
               hi == CHOOSE i \in keep : \A j \in keep : i >= j
           IN  SubSeq(s, lo, hi)

\* the code-fence clean-up every stage applies before json.loads
StripFences(s) ==
  IF Contains(s, <<Fence, JsonTag>>)
  THEN Strip(SplitPart0(SplitPart1(s, <<Fence, JsonTag>>), <<Fence>>))
  ELSE IF Contains(s, <<Fence>>)
       THEN Strip(SplitPart0(SplitPart1(s, <<Fence>>), <<Fence>>))
       ELSE s

(***************************************************************************)
(* Python values                                                           *)
(***************************************************************************)
\* None of the given kind: every field at its empty value
Blank(kind) ==
  [categories |-> <<>>, context |-> <<>>, curation_notes |-> "", date |-> "",
   has |-> {}, interests |-> <<>>, items |-> <<>>, kind |-> kind,
   location |-> "", nulls |-> {}, priority |-> "", reasoning |-> "",
   selected |-> <<>>]

PyNone == Blank("none")

PyNumber == Blank("number")

PyList(items) == [Blank("list") EXCEPT !.items = items]

IsDict(v) == v.kind = "dict"

\* key in d, for a dict d
HasKey(d, key) == key \in d.has

\* an activity entry; has = the keys present
Activity(name, type, rating, details) ==
  [details |-> details, has |-> {"name", "type", "rating", "details"},
   kind |-> "dict", name |-> name, rating |-> rating, type |-> type]

\* an entry that is a bare name, a JSON string where an object is asked for
NameOnly(name) ==
  [details |-> <<>>, has |-> {}, kind |-> "str", name |-> name, rating |-> 0,
   type |-> ""]

\* some entry of the list is not an object: entry.get raises AttributeError
HasNonDict(items) == \E k \in 1..Len(items) : items[k].kind # "dict"

\* activity.get('rating', 0)
RatingOf(a) == IF "rating" \in a.has THEN a.rating ELSE 0

\* activity.get('type'): None when the key is missing
TypeOf(a) == IF "type" \in a.has THEN a.type ELSE "None"

\* the record Stage 1 is asked for
Intent(date, location, interests, context) ==
  [Blank("dict") EXCEPT !.has = {"date", "location", "interests", "context"},
                        !.date = date, !.location = location,
                        !.interests = interests, !.context = context]

\* the record Stage 2 is asked for
Strategy(categories, priority, reasoning) ==
  [Blank("dict") EXCEPT !.has = {"categories", "priority", "reasoning"},
                        !.categories = categories, !.priority = priority,
                        !.reasoning = reasoning]

\* the record Stage 4 is asked for
Curation(selected, notes) ==
  [Blank("dict") EXCEPT !.has = {"selected", "curation_notes"},
                        !.selected = selected, !.curation_notes = notes]

(***************************************************************************)
(* Reasoning-service responses and json.loads                              *)
(***************************************************************************)
PikePlace == Activity(<<"Pike Place Chowder">>, "restaurant", 47, <<"casual seafood counter">>)

DiscoveryPark == Activity(<<"Discovery Park">>, "outdoor", 48, <<"park with trails">>)

Canlis == Activity(<<"Canlis">>, "restaurant", 46, <<"fine dining">>)

DunePartTwo == Activity(<<"Dune: Part Two">>, "movie", 45, <<"sci-fi sequel">>)

FarmersMarket == Activity(<<"Ballard Farmers Market">>, "event", 45, <<"street market">>)

GasWorksPark == Activity(<<"Gas Works Park">>, "outdoor", 44, <<"lakeside park">>)

SeattleQuery ==
  "Plan something fun for this Saturday in Seattle, include restaurants and outdoor activities"

\* the JSON documents the service answers with
Payloads ==
  {"{intent}", "{intent without location}", "{intent quoting a fence}", "{strategy}",
   "[activities]",
   "{curation}", "{curation of six}", "{selected: [names]}", "{selected: null}",
   "{}", "[]", "42"}

\* the value json.loads gives for a document
JsonValue(p) ==
  CASE p = "{intent}" ->
         Intent("this Saturday", "Seattle", <<"restaurant", "outdoor">>, <<"fun">>)
    [] p = "{intent without location}" ->
         [Intent("tomorrow", "", <<"hiking">>, <<"fun">>)
            EXCEPT !.has = {"date", "interests", "context"}]
    [] p = "{intent quoting a fence}" ->
         Intent("this Saturday", "Seattle", <<"restaurant">>,
                <<"files under ", Fence, "weekend", Fence>>)
    [] p = "{strategy}" ->
         Strategy(<<"restaurants", "outdoor">>, "restaurants", "balanced day")
    [] p = "[activities]" ->
         PyList(<<PikePlace, DiscoveryPark, Canlis, DunePartTwo>>)
    [] p = "{curation}" ->
         Curation(<<DiscoveryPark, PikePlace, DunePartTwo>>, "top rated, varied")
    [] p = "{curation of six}" ->
         Curation(<<DiscoveryPark, PikePlace, Canlis, DunePartTwo, FarmersMarket,
                    GasWorksPark>>, "a full day")
    [] p = "{selected: [names]}" ->
         Curation(<<NameOnly(<<"Discovery Park">>), NameOnly(<<"Pike Place Chowder">>)>>,
                  "names only")
    [] p = "{selected: null}" ->
         [Curation(<<>>, "nothing fits") EXCEPT !.nulls = {"selected"}]
    [] p = "{}" -> Blank("dict")
    [] p = "[]" -> PyList(<<>>)
    [] p = "42" -> PyNumber

\* the text of a document: one atom, except for the document whose context
\* string holds the triple-backtick marker twice
Doc(p) ==
  IF p = "{intent quoting a fence}"
  THEN <<"{intent, context: files under ", Fence, "weekend", Fence, "}">>
  ELSE <<p>>

\* json.loads(s): leading and trailing whitespace is skipped, and the rest
\* must be exactly one JSON document; anything else is a JSONDecodeError
JsonLoads(s) ==
  LET t == Strip(s)
  IN  IF \E p \in Payloads : t = Doc(p)
      THEN [ok |-> TRUE, val |-> JsonValue(CHOOSE p \in Payloads : t = Doc(p))]
      ELSE [ok |-> FALSE, val |-> PyNone]

\* the shared tail of stages 1, 2 and 4: strip the fences, then json.loads
ParseResponse(text) == JsonLoads(StripFences(text))

\* the ways a document reaches a stage
Bare(p) == Doc(p)

JsonFenced(p) == <<Fence, JsonTag, "\n">> \o Doc(p) \o <<"\n", Fence>>

PlainFenced(p) == <<Fence, "\n">> \o Doc(p) \o <<"\n", Fence>>

Chatty(p) ==
  <<"Here you go:", "\n", Fence, JsonTag, "\n">> \o Doc(p) \o <<"\n", Fence, "\n", "Enjoy!">>

\* every way a document of the set reaches a stage, and three answers that
\* hold no document json.loads accepts
TextsOf(payloads) ==
  {<<>>, <<"Sorry, I cannot help.">>, <<"Sure:", " ", "{intent}">>}
    \cup {Bare(p) : p \in payloads}
    \cup {JsonFenced(p) : p \in payloads}
    \cup {PlainFenced(p) : p \in payloads}
    \cup {Chatty(p) : p \in payloads}

\* the document a stage asks for
Declared(stage) ==
  CASE stage = "Chat" -> "{intent}"
    [] stage = "Planner" -> "{strategy}"
    [] stage = "Discovery" -> "[activities]"
    [] stage = "Curator" -> "{curation}"

\* the documents a stage is tried with: the declared one and other shapes
PayloadsOf(stage) ==
  CASE stage = "Chat" ->
         {"{intent}", "{intent without location}", "{intent quoting a fence}", "[]", "42"}
    [] stage = "Planner" -> {"{strategy}", "{}", "[]"}
    [] stage = "Discovery" -> {"[activities]", "[]", "{}", "42", "{strategy}"}
    [] stage = "Curator" ->
         {"{curation}", "{curation of six}", "{selected: [names]}", "{selected: null}",
          "{}", "[]"}

Raising == [raises |-> TRUE, text |-> <<>>]

Answer(text) == [raises |-> FALSE, text |-> text]

\* what a call of the reasoning service does: it raises or it answers.  A
\* "plain" service raises or answers the declared document; a "failing"
\* service raises or answers prose that holds no document; an "any" service
\* does all of this and answers other documents, fenced or not.  Stage 5
\* asks for prose, so every answer is as good as another.
LlmOutcomes(stage, service) ==
  IF stage = "Summarizer"
  THEN IF service = "failing" THEN {Raising}
       ELSE {Raising, Answer(<<"Here is your plan for the weekend!">>)}
              \cup (IF service = "any" THEN {Answer(<<>>)} ELSE {})
  ELSE IF service = "any"
       THEN {Raising} \cup {Answer(t) : t \in TextsOf(PayloadsOf(stage))}
       ELSE IF service = "failing"
            THEN {Raising, Answer(<<"Sorry, I cannot help.">>)}
            ELSE {Raising, Answer(Bare(Declared(stage)))}

(***************************************************************************)
(* What a stage function does: it returns a value or raises.  "path" names *)
(* the branch that produced the value and "called" tells whether the       *)
(* reasoning service was invoked.                                          *)
(***************************************************************************)
Return(val, path, called) ==
  [called |-> called, exc |-> "none", path |-> path, val |-> val]

Raise(exc, called) ==
  [called |-> called, exc |-> exc, path |-> "raised", val |-> PyNone]

\* the provider choice of create_chat_agent and its four copies
SelectProvider(env) ==
  IF env.google THEN "gemini-2.0-flash"
  ELSE IF env.openai THEN "gpt-4-turbo-preview"
  ELSE "ValueError"

(***************************************************************************)
(* Stage 1: agents/chat_agent.py                                           *)
(***************************************************************************)
FallbackIntent(user_input) ==
  Intent("not specified", "not specified", <<"general">>, user_input)

parse_user_input(user_input, env, llm) ==
  IF SelectProvider(env) = "ValueError" THEN Raise("ValueError", FALSE)
  ELSE IF llm.raises THEN Raise("ServiceError", TRUE)
  ELSE LET parsed == ParseResponse(llm.text)
       IN  IF parsed.ok THEN Return(parsed.val, "parsed", TRUE)
           ELSE Return(FallbackIntent(user_input), "fallback", TRUE)

(***************************************************************************)
(* Stage 2: agents/planner_agent.py                                        *)
(***************************************************************************)
RestaurantWords == {"dinner", "restaurant", "food"}

MovieWords == {"movie", "film", "cinema"}

EventWords == {"event", "concert", "festival"}

\* variant: a keyword list that misses "hiking"
OutdoorWordsShort == {"outdoor", "park", "nature"}

OutdoorWords == {"outdoor", "park", "nature", "hiking"}

\* any(i in words for i in interests)
AnyIn(interests, words) == \E k \in 1..Len(interests) : interests[k] \in words

\* the categories the keyword table appends, in the order of the four tests
MatchedCategories(interests) ==
  (IF AnyIn(interests, RestaurantWords) THEN <<"restaurants">> ELSE <<>>)
    \o (IF AnyIn(interests, MovieWords) THEN <<"movies">> ELSE <<>>)
    \o (IF AnyIn(interests, EventWords) THEN <<"events">> ELSE <<>>)
    \o (IF AnyIn(interests, OutdoorWords) THEN <<"outdoor">> ELSE <<>>)

DefaultCategories == <<"restaurants", "outdoor">>

\* variant: the fallback hands back a bare list where a record is expected
FallbackStrategyBareList(parsed_input) == PyList(<<>>)

FallbackStrategy(parsed_input) ==
  LET interests == IF HasKey(parsed_input, "interests")
                   THEN parsed_input.interests ELSE <<>>
      matched == MatchedCategories(interests)
      categories == IF matched = <<>> THEN DefaultCategories ELSE matched
  IN  Strategy(categories,
               IF categories # <<>> THEN categories[1] ELSE "restaurants",
               "Fallback strategy based on stated interests")

plan_search_strategy(parsed_input, env, llm) ==
  IF SelectProvider(env) = "ValueError" THEN Raise("ValueError", FALSE)
  ELSE IF ~IsDict(parsed_input) THEN Raise("AttributeError", FALSE)
  ELSE IF llm.raises THEN Raise("ServiceError", TRUE)
  ELSE LET parsed == ParseResponse(llm.text)
       IN  IF parsed.ok THEN Return(parsed.val, "parsed", TRUE)
           ELSE Return(FallbackStrategy(parsed_input), "fallback", TRUE)

(***************************************************************************)
(* Stage 3: agents/discovery_agent.py                                      *)
(***************************************************************************)
DiscoveryDefaultLocation == "New York"

\* the single synthetic candidate of the JSONDecodeError handler
ExploreCandidate(location) ==
  Activity(<<"Explore ", location>>, "outdoor", 45,
           <<"Discover the local attractions and activities in ", location>>)

\* variant: discover_activities that lets the exception of the call escape
discover_activities_uncaught(parsed_input, search_strategy, llm) ==
  IF ~IsDict(parsed_input) \/ ~IsDict(search_strategy)
  THEN Raise("AttributeError", FALSE)
  ELSE LET location == IF HasKey(parsed_input, "location")
                       THEN parsed_input.location ELSE DiscoveryDefaultLocation
       IN  IF llm.raises THEN Raise("ServiceError", TRUE)
           ELSE LET parsed == JsonLoads(StripFences(Strip(llm.text)))
                IN  IF ~parsed.ok
                    THEN Return(PyList(<<ExploreCandidate(location)>>), "fallback", TRUE)
                    ELSE IF parsed.val.kind \in {"number", "none"}
                         THEN Raise("TypeError", TRUE)
                         ELSE Return(parsed.val, "parsed", TRUE)

discover_activities(parsed_input, search_strategy, llm) ==
  IF ~IsDict(parsed_input) \/ ~IsDict(search_strategy)
  THEN Raise("AttributeError", FALSE)
  ELSE LET location == IF HasKey(parsed_input, "location")
                       THEN parsed_input.location ELSE DiscoveryDefaultLocation
       IN  IF llm.raises THEN Return(PyList(<<>>), "failed", TRUE)
           ELSE LET parsed == JsonLoads(StripFences(Strip(llm.text)))
                IN  IF ~parsed.ok
                    THEN Return(PyList(<<ExploreCandidate(location)>>), "fallback", TRUE)
                    ELSE IF parsed.val.kind \in {"number", "none"}
                         \* len(activities) raises TypeError: except Exception
                         THEN Return(PyList(<<>>), "failed", TRUE)
                         ELSE Return(parsed.val, "parsed", TRUE)

(***************************************************************************)
(* Stage 4: agents/curator_agent.py                                        *)
(***************************************************************************)
\* below this many selected, an activity is taken whatever its type
VarietyFloor == 3

\* the loop breaks once this many are selected
SelectionCap == 5

EmptyCuration == Curation(<<>>, "No activities found to curate.")

\* not v
Falsy(v) ==
  \/ v.kind = "none"
  \/ v.kind = "list" /\ v.items = <<>>
  \/ v.kind = "dict" /\ v.has = {}

\* variant: a sort that is not stable, equally rated entries change places
InsertByRatingBeforeTies(sorted, a) ==
  LET n == Cardinality({i \in 1..Len(sorted) : RatingOf(sorted[i]) > RatingOf(a)})
  IN  SubSeq(sorted, 1, n) \o <<a>> \o SubSeq(sorted, n + 1, Len(sorted))

\* a goes behind every entry rated at least as high: sorted(reverse=True)
\* keeps the input order of equally rated entries
InsertByRating(sorted, a) ==
  LET n == Cardinality({i \in 1..Len(sorted) : RatingOf(sorted[i]) >= RatingOf(a)})
  IN  SubSeq(sorted, 1, n) \o <<a>> \o SubSeq(sorted, n + 1, Len(sorted))

RECURSIVE SortByRating(_)
\* sorted(activities, key=lambda x: x.get('rating', 0), reverse=True)
SortByRating(activities) ==
  IF activities = <<>> THEN <<>>
  ELSE InsertByRating(SortByRating(SubSeq(activities, 1, Len(activities) - 1)),
                      activities[Len(activities)])

\* variant: the test without its "or fewer than three selected" half
AdmitsNewTypeOnly(activity_type, types_seen, selected) ==
  activity_type \notin types_seen

\* variant: the test lets every activity in, the top five by rating
AdmitsAnyType(activity_type, types_seen, selected) == TRUE

\* the test that lets an activity into the selection
Admits(activity_type, types_seen, selected) ==
  activity_type \notin types_seen \/ Len(selected) < VarietyFloor

RECURSIVE SelectFrom(_, _, _, _)
\* the for loop over sorted_activities, from position i on
SelectFrom(sorted_activities, i, selected, types_seen) ==
  IF i > Len(sorted_activities) THEN selected
  ELSE LET activity == sorted_activities[i]
           activity_type == TypeOf(activity)
       IN  IF Admits(activity_type, types_seen, selected)
           THEN LET grown == Append(selected, activity)
                IN  IF Len(grown) >= SelectionCap THEN grown
                    ELSE SelectFrom(sorted_activities, i + 1, grown,
                                    types_seen \cup {activity_type})
           ELSE SelectFrom(sorted_activities, i + 1, selected, types_seen)

\* variant: the loop runs over the candidates as they came, unsorted
FallbackSelectionUnsorted(activities) == SelectFrom(activities, 1, <<>>, {})

\* the selection of the except branch
FallbackSelection(activities) == SelectFrom(SortByRating(activities), 1, <<>>, {})

FallbackCuration(activities) ==
  Curation(FallbackSelection(activities), "Curated based on ratings and variety")

\* variant: curate_activities without its guard on an empty input
curate_activities_unguarded(discovered_activities, parsed_input, env, llm) ==
  IF SelectProvider(env) = "ValueError" THEN Raise("ValueError", FALSE)
  ELSE IF ~IsDict(parsed_input) THEN Raise("AttributeError", FALSE)
  ELSE IF llm.raises THEN Raise("ServiceError", TRUE)
  ELSE LET parsed == ParseResponse(llm.text)
       IN  IF parsed.ok THEN Return(parsed.val, "parsed", TRUE)
           ELSE IF discovered_activities.kind # "list"
                     \/ HasNonDict(discovered_activities.items)
                THEN Raise("AttributeError", TRUE)
           ELSE Return(FallbackCuration(discovered_activities.items), "fallback", TRUE)

curate_activities(discovered_activities, parsed_input, env, llm) ==
  IF Falsy(discovered_activities) THEN Return(EmptyCuration, "guard", FALSE)
  ELSE IF SelectProvider(env) = "ValueError" THEN Raise("ValueError", FALSE)
  ELSE IF ~IsDict(parsed_input) THEN Raise("AttributeError", FALSE)
  ELSE IF llm.raises THEN Raise("ServiceError", TRUE)
  ELSE LET parsed == ParseResponse(llm.text)
       IN  IF parsed.ok THEN Return(parsed.val, "parsed", TRUE)
           \* sorted() over a dict walks its keys, and a str has no .get
           ELSE IF discovered_activities.kind # "list"
                     \/ HasNonDict(discovered_activities.items)
                THEN Raise("AttributeError", TRUE)
           ELSE Return(FallbackCuration(discovered_activities.items), "fallback", TRUE)

(***************************************************************************)
(* Stage 5: agents/summarizer_agent.py                                     *)
(***************************************************************************)
\* descriptions longer than this are cut
DetailsCap == 150

NoActivitiesMessage == <<"I couldn't find enough activities to create an itinerary for your request.">>

SummaryDefaultLocation == "your area"

SummaryDefaultDate == "your chosen date"

\* emoji_map.get(activity.get('type', ''), pin)
Emoji(a) ==
  LET t == IF "type" \in a.has THEN a.type ELSE ""
  IN  IF t \in {"restaurant", "outdoor", "movie", "event", "weather"}
      THEN "<" \o t \o ">" ELSE "<pin>"

\* the rating printed as Python prints the float
RatingText(rating) == <<ToString(rating \div 10), ".", ToString(rating % 10)>>

\* variant: the cut already applies to a description of exactly the cap
ActivityLinesCutsAtCap(i, a) ==
  LET name == IF "name" \in a.has THEN a.name ELSE <<"Unknown">>
      rating == RatingOf(a)
      details == IF "details" \in a.has THEN a.details ELSE <<>>
  IN  <<(<<ToString(i), ". ", Emoji(a), " ">> \o name)>>
        \o (IF rating > 0
            THEN <<(<<"   Rating: ">> \o [k \in 1..(rating \div 10) |-> "*"]
                      \o <<" (">> \o RatingText(rating) \o <<"/5)">>)>>
            ELSE <<>>)
        \o (IF details # <<>>
            THEN <<(<<"   ">> \o (IF Len(details) >= DetailsCap
                                  THEN SubSeq(details, 1, DetailsCap) \o <<".", ".", ".">>
                                  ELSE details))>>
            ELSE <<>>)
        \o << <<>> >>

\* the lines one selected activity adds
ActivityLines(i, a) ==
  LET name == IF "name" \in a.has THEN a.name ELSE <<"Unknown">>
      rating == RatingOf(a)
      details == IF "details" \in a.has THEN a.details ELSE <<>>
  IN  <<(<<ToString(i), ". ", Emoji(a), " ">> \o name)>>
        \o (IF rating > 0
            THEN <<(<<"   Rating: ">> \o [k \in 1..(rating \div 10) |-> "*"]
                      \o <<" (">> \o RatingText(rating) \o <<"/5)">>)>>
            ELSE <<>>)
        \o (IF details # <<>>
            THEN <<(<<"   ">> \o (IF Len(details) > DetailsCap
                                  THEN SubSeq(details, 1, DetailsCap) \o <<".", ".", ".">>
                                  ELSE details))>>
            ELSE <<>>)
        \o << <<>> >>

RECURSIVE AllActivityLines(_, _)
\* the lines of selected[i..]
AllActivityLines(selected, i) ==
  IF i > Len(selected) THEN <<>>
  ELSE ActivityLines(i, selected[i]) \o AllActivityLines(selected, i + 1)

RECURSIVE JoinLines(_)
\* "\n".join(lines)
JoinLines(lines) ==
  IF lines = <<>> THEN <<>>
  ELSE IF Len(lines) = 1 THEN lines[1]
  ELSE lines[1] \o <<"\n">> \o JoinLines(Tail(lines))

\* the header line of the template
Header(date, location) == <<"Your ", "Weekend Plan for ", date, " in ", location>>

generate_simple_itinerary(curated_data, parsed_input) ==
  IF ~IsDict(parsed_input) \/ ~IsDict(curated_data) THEN Raise("AttributeError", FALSE)
  ELSE
    LET location == IF HasKey(parsed_input, "location")
                    THEN parsed_input.location ELSE SummaryDefaultLocation
        date == IF HasKey(parsed_input, "date")
                THEN parsed_input.date ELSE SummaryDefaultDate
        selected == IF HasKey(curated_data, "selected") THEN curated_data.selected ELSE <<>>
        notes == IF HasKey(curated_data, "curation_notes")
                 THEN curated_data.curation_notes ELSE ""
    IN  IF selected = <<>>
        THEN Return(<<"No activities found. Please try a different location or criteria.">>,
                    "fallback", FALSE)
        \* activity.get on an entry that is no dict
        ELSE IF HasNonDict(selected) THEN Raise("AttributeError", FALSE)
        ELSE Return(JoinLines(<<Header(date, location), <<"====">>, <<>> >>
                                \o AllActivityLines(selected, 1)
                                \o (IF notes # "" THEN << <<"Tip: ", notes>> >> ELSE <<>>)
                                \o << <<"\n", "Have a great time!">> >>),
                    "fallback", FALSE)

\* variant: generate_itinerary that lets the exception of the call escape
generate_itinerary_uncaught(curated_data, parsed_input, env, llm) ==
  IF ~IsDict(curated_data) THEN Raise("AttributeError", FALSE)
  ELSE IF "selected" \in curated_data.nulls THEN Raise("TypeError", FALSE)
  ELSE IF ~HasKey(curated_data, "selected") \/ curated_data.selected = <<>>
       THEN Return(NoActivitiesMessage, "guard", FALSE)
  ELSE IF SelectProvider(env) = "ValueError" THEN Raise("ValueError", FALSE)
  ELSE IF ~IsDict(parsed_input) THEN Raise("AttributeError", FALSE)
  ELSE IF llm.raises THEN Raise("ServiceError", TRUE)
  ELSE Return(llm.text, "parsed", TRUE)

\* variant: generate_itinerary without its guard on an empty selection
generate_itinerary_unguarded(curated_data, parsed_input, env, llm) ==
  IF ~IsDict(curated_data) THEN Raise("AttributeError", FALSE)
  ELSE IF "selected" \in curated_data.nulls THEN Raise("TypeError", FALSE)
  ELSE IF SelectProvider(env) = "ValueError" \/ ~IsDict(parsed_input)
       THEN generate_simple_itinerary(curated_data, parsed_input)
  ELSE IF llm.raises
       THEN [generate_simple_itinerary(curated_data, parsed_input) EXCEPT !.called = TRUE]
  ELSE Return(llm.text, "parsed", TRUE)

generate_itinerary(curated_data, parsed_input, env, llm) ==
  IF ~IsDict(curated_data) THEN Raise("AttributeError", FALSE)
  \* len(selected) on a null "selected"
  ELSE IF "selected" \in curated_data.nulls THEN Raise("TypeError", FALSE)
  ELSE IF ~HasKey(curated_data, "selected") \/ curated_data.selected = <<>>
       THEN Return(NoActivitiesMessage, "guard", FALSE)
  ELSE IF SelectProvider(env) = "ValueError" \/ ~IsDict(parsed_input)
       THEN generate_simple_itinerary(curated_data, parsed_input)
  ELSE IF llm.raises
       THEN [generate_simple_itinerary(curated_data, parsed_input) EXCEPT !.called = TRUE]
  ELSE Return(llm.text, "parsed", TRUE)

(***************************************************************************)
(* tools/budget_estimator.py: the currency of a location.  A location is   *)
(* a sequence of characters.                                               *)
(***************************************************************************)
UpperLetters ==
  <<"A", "B", "C", "D", "E", "F", "G", "H", "I", "J", "K", "L", "M", "N", "O", "P", "Q", "R", "S", "T", "U", "V", "W", "X", "Y", "Z">>

LowerLetters ==
  <<"a", "b", "c", "d", "e", "f", "g", "h", "i", "j", "k", "l", "m", "n", "o", "p", "q", "r", "s", "t", "u", "v", "w", "x", "y", "z">>

\* str.lower() on one character
LowerChar(c) ==
  IF \E k \in 1..Len(UpperLetters) : UpperLetters[k] = c
  THEN LowerLetters[CHOOSE k \in 1..Len(UpperLetters) : UpperLetters[k] = c]
  ELSE c

\* str.lower()
Lower(s) == [i \in 1..Len(s) |-> LowerChar(s[i])]

LOCATION_CURRENCY ==
  <<
    [currency |-> <<"$", "USD">>,
     key |-> <<"n", "e", "w", " ", "y", "o", "r", "k">>],
    [currency |-> <<"$", "USD">>,
     key |-> <<"l", "o", "s", " ", "a", "n", "g", "e", "l", "e", "s">>],
    [currency |-> <<"$", "USD">>,
     key |-> <<"c", "h", "i", "c", "a", "g", "o">>],
    [currency |-> <<"$", "USD">>,
     key |-> <<"h", "o", "u", "s", "t", "o", "n">>],
    [currency |-> <<"$", "USD">>,
     key |-> <<"p", "h", "o", "e", "n", "i", "x">>],
    [currency |-> <<"$", "USD">>,
     key |-> <<"p", "h", "i", "l", "a", "d", "e", "l", "p", "h", "i", "a">>],
    [currency |-> <<"$", "USD">>,
     key |-> <<"s", "a", "n", " ", "a", "n", "t", "o", "n", "i", "o">>],
    [currency |-> <<"$", "USD">>,
     key |-> <<"s", "a", "n", " ", "d", "i", "e", "g", "o">>],
    [currency |-> <<"$", "USD">>,
     key |-> <<"d", "a", "l", "l", "a", "s">>],
    [currency |-> <<"$", "USD">>,
     key |-> <<"s", "a", "n", " ", "j", "o", "s", "e">>],
    [currency |-> <<"$", "USD">>,
     key |-> <<"a", "u", "s", "t", "i", "n">>],
    [currency |-> <<"$", "USD">>,
     key |-> <<"s", "e", "a", "t", "t", "l", "e">>],
    [currency |-> <<"$", "USD">>,
     key |-> <<"a", "t", "l", "a", "n", "t", "a">>],
    [currency |-> <<"$", "USD">>,
     key |-> <<"m", "i", "a", "m", "i">>],
    [currency |-> <<"$", "USD">>,
     key |-> <<"b", "o", "s", "t", "o", "n">>],
    [currency |-> <<"$", "USD">>,
     key |-> <<"p", "o", "r", "t", "l", "a", "n", "d">>],
    [currency |-> <<"$", "USD">>,
     key |-> <<"d", "e", "n", "v", "e", "r">>],
    [currency |-> <<"$", "USD">>,
     key |-> <<"s", "a", "n", " ", "f", "r", "a", "n", "c", "i", "s", "c", "o">>],
    [currency |-> <<"$", "USD">>,
     key |-> <<"l", "a", "s", " ", "v", "e", "g", "a", "s">>],
    [currency |-> <<"£", "GBP">>,
     key |-> <<"l", "o", "n", "d", "o", "n">>],
    [currency |-> <<"€", "EUR">>,
     key |-> <<"p", "a", "r", "i", "s">>],
    [currency |-> <<"€", "EUR">>,
     key |-> <<"b", "e", "r", "l", "i", "n">>],
    [currency |-> <<"€", "EUR">>,
     key |-> <<"r", "o", "m", "e">>],
    [currency |-> <<"€", "EUR">>,
     key |-> <<"m", "a", "d", "r", "i", "d">>],
    [currency |-> <<"€", "EUR">>,
     key |-> <<"a", "m", "s", "t", "e", "r", "d", "a", "m">>],
    [currency |-> <<"¥", "JPY">>,
     key |-> <<"t", "o", "k", "y", "o">>],
    [currency |-> <<"¥", "JPY">>,
     key |-> <<"o", "s", "a", "k", "a">>],
    [currency |-> <<"A$", "AUD">>,
     key |-> <<"s", "y", "d", "n", "e", "y">>],
    [currency |-> <<"A$", "AUD">>,
     key |-> <<"m", "e", "l", "b", "o", "u", "r", "n", "e">>],
    [currency |-> <<"C$", "CAD">>,
     key |-> <<"t", "o", "r", "o", "n", "t", "o">>],
    [currency |-> <<"C$", "CAD">>,
     key |-> <<"v", "a", "n", "c", "o", "u", "v", "e", "r">>],
    [currency |-> <<"₹", "INR">>,
     key |-> <<"m", "u", "m", "b", "a", "i">>],
    [currency |-> <<"₹", "INR">>,
     key |-> <<"d", "e", "l", "h", "i">>],
    [currency |-> <<"₹", "INR">>,
     key |-> <<"b", "a", "n", "g", "a", "l", "o", "r", "e">>],
    [currency |-> <<"AED", "AED">>,
     key |-> <<"d", "u", "b", "a", "i">>],
    [currency |-> <<"S$", "SGD">>,
     key |-> <<"s", "i", "n", "g", "a", "p", "o", "r", "e">>]
  >>

DefaultCurrency == <<"$", "USD">>

\* LOCATION_CURRENCY.get(key, default)
CurrencyGet(key, default) ==
  IF \E k \in 1..Len(LOCATION_CURRENCY) : LOCATION_CURRENCY[k].key = key
  THEN LOCATION_CURRENCY[CHOOSE k \in 1..Len(LOCATION_CURRENCY) :
                           LOCATION_CURRENCY[k].key = key].currency
  ELSE default

\* variant: the lookup on the location as given, neither lowered nor stripped
get_currency_for_location_exact(location) == CurrencyGet(location, DefaultCurrency)

get_currency_for_location(location) ==
  LET location_lower == Strip(Lower(location))
  IN  CurrencyGet(location_lower, DefaultCurrency)

\* a location argument: None or a string
NoLocation == [none |-> TRUE, text |-> <<>>]

Location(text) == [none |-> FALSE, text |-> text]

\* the first assignment of analyze_itinerary_budget
BudgetCurrency(location) ==
  IF ~location.none /\ location.text # <<>>
  THEN get_currency_for_location(location.text)
  ELSE <<"$", "USD">>

(***************************************************************************)
(* The session of app.py                                                   *)
(***************************************************************************)
VARIABLES
  env,              \* which of GOOGLE_API_KEY, OPENAI_API_KEY are set
  service,          \* the answers the reasoning service gives in this session
  messages,         \* st.session_state.messages
  pipeline_status,  \* st.session_state.pipeline_status
  processing,       \* st.session_state.processing
  current_query,    \* st.session_state.current_query
  pc,               \* where the script stands
  parsed_input,     \* the locals of the pipeline block
  search_strategy,
  activities,
  curated,
  itinerary,
  error_shown,      \* the text st.error displays
  run_state,        \* Idle, Running, Done or Error
  llm_calls,        \* the service calls of the run: stage and model
  path,             \* the branch each stage function of the run took
  response,         \* what the service did on the last stage's call, if it was called
  start_status,     \* pipeline_status as the run found it
  budget_call,      \* the location argument of a budget analysis
  budget_result,    \* the currency the analysis reports
  venue_call,       \* the arguments of a call of a venue tool
  venue_result,     \* what the venue tool met and returned
  cost_call,        \* the arguments of a call of the budget tool
  cost_result       \* the analysis the budget tool made and what it returned

vars ==
  <<env, service, messages, pipeline_status, processing, current_query, pc, parsed_input,
    search_strategy, activities, curated, itinerary, error_shown, run_state,
    llm_calls, path, response, start_status, budget_call, budget_result,
    venue_call, venue_result, cost_call, cost_result>>

Stages == <<"Chat", "Planner", "Discovery", "Curator", "Summarizer">>

StageNames == {Stages[i] : i \in 1..Len(Stages)}

AllPending == [n \in StageNames |-> "pending"]

NoQuery == [none |-> TRUE, text |-> <<>>]

Query(text) == [none |-> FALSE, text |-> text]

\* the truth value Python gives current_query
Truthy(query) == ~query.none /\ query.text # <<>>

NoPath == [n \in StageNames |-> "none"]

\* what the user may have typed when pressing the button
InputTexts ==
  {<<>>, <<" ">>, <<SeattleQuery>>, <<" ", "Dinner and a film in Paris tomorrow", "\n">>}

\* a session whose service answers anything is followed for one run, a
\* session with a plain service for MaxRuns runs
RunLimit == IF service = "any" THEN 1 ELSE MaxRuns

Environments == [google : BOOLEAN, openai : BOOLEAN]

\* the user messages so far, one per run
RunsStarted == Cardinality({i \in 1..Len(messages) : messages[i].role = "user"})

Init ==
  /\ env \in Environments
  /\ service \in {"any", "plain", "failing"}
  /\ messages = <<>>
  /\ pipeline_status = AllPending
  /\ processing = FALSE
  /\ current_query = NoQuery
  /\ pc = "idle"
  /\ parsed_input = PyNone
  /\ search_strategy = PyNone
  /\ activities = PyNone
  /\ curated = PyNone
  /\ itinerary = <<>>
  /\ error_shown = <<>>
  /\ run_state = "Idle"
  /\ llm_calls = {}
  /\ path = NoPath
  /\ response = <<>>
  /\ start_status = AllPending
  /\ budget_call = [location |-> NoLocation, pending |-> FALSE]
  /\ budget_result = <<>>
  /\ venue_call = <<>>
  /\ venue_result = <<>>
  /\ cost_call = <<>>
  /\ cost_result = <<>>

\* the send button: disabled while processing, ignored on blank input
Send(user_input) ==
  /\ pc = "idle"
  /\ ~processing
  /\ RunsStarted < RunLimit
  /\ Strip(user_input) # <<>>
  /\ messages' = Append(messages, [content |-> Strip(user_input), role |-> "user"])
  /\ current_query' = Query(Strip(user_input))
  /\ processing' = TRUE
  /\ pc' = "Chat"
  /\ error_shown' = <<>>
  /\ run_state' = "Running"
  /\ llm_calls' = {}
  /\ path' = NoPath
  /\ response' = <<>>
  /\ start_status' = pipeline_status
  /\ UNCHANGED <<env, service, cost_call, cost_result, budget_call, budget_result, venue_call, venue_result, pipeline_status, parsed_input, search_strategy, activities,
                 curated, itinerary>>

\* pipeline_status[stage] = 'active' and the sidebar refresh
Activate(stage) ==
  /\ pc = stage
  /\ processing /\ Truthy(current_query)
  /\ pipeline_status' = [pipeline_status EXCEPT ![stage] = "active"]
  /\ pc' = stage \o ":call"
  /\ UNCHANGED <<env, service, cost_call, cost_result, budget_call, budget_result, venue_call, venue_result, messages, processing, current_query, parsed_input,
                 search_strategy, activities, curated, itinerary, error_shown,
                 run_state, llm_calls, path, response, start_status>>

\* what the service did when the stage function called it
Heard(r, llm) == IF r.called THEN <<llm>> ELSE <<>>

\* the calls a stage function made
CallsOf(stage, model, r) ==
  IF r.called THEN {[model |-> model, stage |-> stage]} ELSE {}

\* variant: the except branch without the reset of processing and query
HandleErrorKeepsQuery(stage, model, r) ==
  /\ error_shown' = <<"Error: ", r.exc>>
  /\ pipeline_status' = [pipeline_status EXCEPT ![Stages[1]] = "error"]
  /\ processing' = processing
  /\ current_query' = current_query
  /\ pc' = "idle"
  /\ parsed_input' = PyNone
  /\ search_strategy' = PyNone
  /\ activities' = PyNone
  /\ curated' = PyNone
  /\ itinerary' = <<>>
  /\ run_state' = "Error"
  /\ llm_calls' = llm_calls \cup CallsOf(stage, model, r)
  /\ path' = [path EXCEPT ![stage] = r.path]
  /\ UNCHANGED <<env, service, cost_call, cost_result, budget_call, budget_result, venue_call, venue_result, messages, start_status>>

\* the except branch of the pipeline block
HandleError(stage, model, r) ==
  /\ error_shown' = <<"Error: ", r.exc>>
  /\ pipeline_status' = [pipeline_status EXCEPT ![Stages[1]] = "error"]
  /\ processing' = FALSE
  /\ current_query' = NoQuery
  /\ pc' = "idle"
  /\ parsed_input' = PyNone
  /\ search_strategy' = PyNone
  /\ activities' = PyNone
  /\ curated' = PyNone
  /\ itinerary' = <<>>
  /\ run_state' = "Error"
  /\ llm_calls' = llm_calls \cup CallsOf(stage, model, r)
  /\ path' = [path EXCEPT ![stage] = r.path]
  /\ UNCHANGED <<env, service, cost_call, cost_result, budget_call, budget_result, venue_call, venue_result, messages, start_status>>

\* variant: the stage returned, but its status is left at 'active'
CompleteLeavesActive(stage, model, r, next) ==
  /\ pipeline_status' = pipeline_status
  /\ pc' = next
  /\ llm_calls' = llm_calls \cup CallsOf(stage, model, r)
  /\ path' = [path EXCEPT ![stage] = r.path]
  /\ UNCHANGED <<env, service, cost_call, cost_result, budget_call, budget_result, venue_call, venue_result, messages, processing, current_query, error_shown, run_state,
                 start_status>>

\* variant: the block goes back to the stage it has just completed
CompleteReenters(stage, model, r, next) ==
  /\ pipeline_status' = [pipeline_status EXCEPT ![stage] = "completed"]
  /\ pc' = stage
  /\ llm_calls' = llm_calls \cup CallsOf(stage, model, r)
  /\ path' = [path EXCEPT ![stage] = r.path]
  /\ UNCHANGED <<env, service, cost_call, cost_result, budget_call, budget_result, venue_call, venue_result, messages, processing, current_query, error_shown, run_state,
                 start_status>>

\* the stage returned: its status becomes 'completed'
Complete(stage, model, r, next) ==
  /\ pipeline_status' = [pipeline_status EXCEPT ![stage] = "completed"]
  /\ pc' = next
  /\ llm_calls' = llm_calls \cup CallsOf(stage, model, r)
  /\ path' = [path EXCEPT ![stage] = r.path]
  /\ UNCHANGED <<env, service, cost_call, cost_result, budget_call, budget_result, venue_call, venue_result, messages, processing, current_query, error_shown, run_state,
                 start_status>>

ChatRun ==
  /\ pc = "Chat:call"
  /\ \E llm \in LlmOutcomes("Chat", service) :
       LET r == parse_user_input(current_query.text, env, llm)
       IN  /\ response' = Heard(r, llm)
           /\ IF r.exc = "none"
              THEN /\ parsed_input' = r.val
                   /\ Complete("Chat", SelectProvider(env), r, "Planner")
                   /\ UNCHANGED <<search_strategy, activities, curated, itinerary>>
              ELSE HandleError("Chat", SelectProvider(env), r)

PlannerRun ==
  /\ pc = "Planner:call"
  /\ \E llm \in LlmOutcomes("Planner", service) :
       LET r == plan_search_strategy(parsed_input, env, llm)
       IN  /\ response' = Heard(r, llm)
           /\ IF r.exc = "none"
              THEN /\ search_strategy' = r.val
                   /\ Complete("Planner", SelectProvider(env), r, "Discovery")
                   /\ UNCHANGED <<parsed_input, activities, curated, itinerary>>
              ELSE HandleError("Planner", SelectProvider(env), r)

\* the model discover_activities calls whatever the credentials
DiscoveryModel == "gemini-2.0-flash"

DiscoveryRun ==
  /\ pc = "Discovery:call"
  /\ \E llm \in LlmOutcomes("Discovery", service) :
       \* without the Google credential the Gemini call cannot answer
       /\ ~env.google => llm.raises
       /\ LET r == discover_activities(parsed_input, search_strategy, llm)
          IN  /\ response' = Heard(r, llm)
              /\ IF r.exc = "none"
                 THEN /\ activities' = r.val
                      /\ Complete("Discovery", DiscoveryModel, r, "Curator")
                      /\ UNCHANGED <<parsed_input, search_strategy, curated, itinerary>>
                 ELSE HandleError("Discovery", DiscoveryModel, r)

CuratorRun ==
  /\ pc = "Curator:call"
  /\ \E llm \in LlmOutcomes("Curator", service) :
       LET r == curate_activities(activities, parsed_input, env, llm)
       IN  /\ response' = Heard(r, llm)
           /\ IF r.exc = "none"
              THEN /\ curated' = r.val
                   /\ Complete("Curator", SelectProvider(env), r, "Summarizer")
                   /\ UNCHANGED <<parsed_input, search_strategy, activities, itinerary>>
              ELSE HandleError("Curator", SelectProvider(env), r)

SummarizerRun ==
  /\ pc = "Summarizer:call"
  /\ \E llm \in LlmOutcomes("Summarizer", service) :
       LET r == generate_itinerary(curated, parsed_input, env, llm)
       IN  /\ response' = Heard(r, llm)
           /\ IF r.exc = "none"
              THEN /\ itinerary' = r.val
                   /\ Complete("Summarizer", SelectProvider(env), r, "respond")
                   /\ UNCHANGED <<parsed_input, search_strategy, activities, curated>>
              ELSE HandleError("Summarizer", SelectProvider(env), r)

\* variant: the reset that leaves the query in place
RespondKeepsQuery ==
  /\ pc = "respond"
  /\ messages' = Append(messages, [content |-> itinerary, role |-> "assistant"])
  /\ processing' = FALSE
  /\ current_query' = current_query
  /\ pipeline_status' = [n \in DOMAIN pipeline_status |-> "pending"]
  /\ pc' = "idle"
  /\ parsed_input' = PyNone
  /\ search_strategy' = PyNone
  /\ activities' = PyNone
  /\ curated' = PyNone
  /\ itinerary' = <<>>
  /\ run_state' = "Done"
  /\ response' = <<>>
  /\ UNCHANGED <<env, service, cost_call, cost_result, budget_call, budget_result, venue_call, venue_result, error_shown, llm_calls, path, start_status>>

\* the assistant message, the reset of the session state and st.rerun()
Respond ==
  /\ pc = "respond"
  /\ messages' = Append(messages, [content |-> itinerary, role |-> "assistant"])
  /\ processing' = FALSE
  /\ current_query' = NoQuery
  /\ pipeline_status' = [n \in DOMAIN pipeline_status |-> "pending"]
  /\ pc' = "idle"
  /\ parsed_input' = PyNone
  /\ search_strategy' = PyNone
  /\ activities' = PyNone
  /\ curated' = PyNone
  /\ itinerary' = <<>>
  /\ run_state' = "Done"
  /\ response' = <<>>
  /\ UNCHANGED <<env, service, cost_call, cost_result, budget_call, budget_result, venue_call, venue_result, error_shown, llm_calls, path, start_status>>

Next ==
  \/ \E user_input \in InputTexts : Send(user_input)
  \/ \E i \in 1..Len(Stages) : Activate(Stages[i])
  \/ ChatRun
  \/ PlannerRun
  \/ DiscoveryRun
  \/ CuratorRun
  \/ SummarizerRun
  \/ Respond

Spec == Init /\ [][Next]_vars

\* a step of the pipeline block: once the script is in the block it goes
\* on, each stage call returning or raising
RunStep ==
  \/ \E i \in 1..Len(Stages) : Activate(Stages[i])
  \/ ChatRun
  \/ PlannerRun
  \/ DiscoveryRun
  \/ CuratorRun
  \/ SummarizerRun
  \/ Respond

\* a session whose service raises or answers prose, so that its runs end in
\* Error or, by the fallbacks, in Done
InitLive == Init /\ service = "failing"

\* that session, in which no stage call hangs
SpecLive == InitLive /\ [][Next]_vars /\ WF_vars(RunStep)

(***************************************************************************)
(* The fallback curation on its own: the Curator stage of a run whose      *)
(* discovery produced any sequence of up to MaxCands candidates, with a    *)
(* service that no longer answers a document.                              *)
(***************************************************************************)
\* an entry the service left without type and rating
Untyped == [details |-> <<"a place">>, has |-> {"name", "details"}, kind |-> "dict",
            name |-> <<"Somewhere">>, rating |-> 0, type |-> ""]

Candidates == {PikePlace, DiscoveryPark, DunePartTwo, FarmersMarket, Untyped}

CandidateSeqs == UNION {[1..n -> Candidates] : n \in 0..MaxCands}

\* the session in the middle of a run, at `stage`, earlier stages completed
MidRun(stage) ==
  /\ env = [google |-> TRUE, openai |-> FALSE]
  /\ service = "failing"
  /\ messages = <<[content |-> <<SeattleQuery>>, role |-> "user"]>>
  /\ pipeline_status =
       [n \in StageNames |->
          IF n = stage THEN "active"
          ELSE IF \E i, j \in 1..Len(Stages) : Stages[i] = n /\ Stages[j] = stage /\ i < j
               THEN "completed" ELSE "pending"]
  /\ processing = TRUE
  /\ current_query = Query(<<SeattleQuery>>)
  /\ pc = stage \o ":call"
  /\ itinerary = <<>>
  /\ error_shown = <<>>
  /\ run_state = "Running"
  /\ llm_calls = {}
  /\ path = NoPath
  /\ response = <<>>
  /\ start_status = AllPending
  /\ budget_call = [location |-> NoLocation, pending |-> FALSE]
  /\ budget_result = <<>>
  /\ venue_call = <<>>
  /\ venue_result = <<>>
  /\ cost_call = <<>>
  /\ cost_result = <<>>

InitCurate ==
  /\ MidRun("Curator")
  /\ parsed_input = FallbackIntent(<<SeattleQuery>>)
  /\ search_strategy = FallbackStrategy(parsed_input)
  /\ activities \in {PyList(c) : c \in CandidateSeqs}
  /\ curated = PyNone

SpecCurate == InitCurate /\ [][CuratorRun]_vars

(***************************************************************************)
(* The fallback strategy on its own: the Planner stage of a run whose      *)
(* record holds any sequence of up to MaxInterests interests.              *)
(***************************************************************************)
\* the interests a record may hold: the words the planner knows and others
InterestWords ==
  {"dinner", "restaurant", "food", "movie", "film", "cinema", "event", "concert",
   "festival", "outdoor", "park", "nature", "hiking",
   "general", "entertainment", "Hiking", "restaurants", "hike"}

InterestSeqs == UNION {[1..n -> InterestWords] : n \in 0..MaxInterests}

InitPlan ==
  /\ MidRun("Planner")
  /\ parsed_input \in
       {Intent("this Saturday", "Seattle", i, <<"fun">>) : i \in InterestSeqs}
         \cup {[Intent("this Saturday", "Seattle", <<>>, <<"fun">>)
                  EXCEPT !.has = {"date", "location", "context"}]}
  /\ search_strategy = PyNone
  /\ activities = PyNone
  /\ curated = PyNone

SpecPlan == InitPlan /\ [][PlannerRun]_vars

(***************************************************************************)
(* The template itinerary on its own: the Summarizer stage of a run whose  *)
(* selection holds descriptions of up to MaxDetails characters, with a     *)
(* service that no longer answers.  Here a description is a sequence of    *)
(* characters.                                                             *)
(***************************************************************************)
\* the longest description tried
MaxDetails == 152

DescriptionChars == <<"a", "b", "c", "d", "e", "f", "g">>

\* a description of n characters
Description(n) ==
  [k \in 1..n |-> DescriptionChars[((k - 1) % Len(DescriptionChars)) + 1]]

\* lengths around the cap
DescriptionLengths == {0, 1, DetailsCap - 1, DetailsCap, DetailsCap + 1, MaxDetails}

\* selected entries with a description of each length, and one without any
Described ==
  {Activity(<<"Discovery Park">>, "outdoor", 48, Description(n)) : n \in DescriptionLengths}
    \cup {Activity(<<"Canlis">>, "restaurant", 0, Description(n)) : n \in DescriptionLengths}
    \cup {[Activity(<<"Dune: Part Two">>, "movie", 45, <<>>)
             EXCEPT !.has = {"name", "type", "rating"}]}

DescribedSeqs == UNION {[1..n -> Described] : n \in 1..2}

InitSummary ==
  /\ MidRun("Summarizer")
  /\ parsed_input = FallbackIntent(<<SeattleQuery>>)
  /\ search_strategy = FallbackStrategy(parsed_input)
  /\ activities = PyList(<<PikePlace>>)
  /\ curated \in {Curation(sel, "top rated, varied") : sel \in DescribedSeqs}

SpecSummary == InitSummary /\ [][SummarizerRun]_vars

(***************************************************************************)
(* The wiring of the stages: the arguments of the calls in the pipeline    *)
(* block of app.py, and the tasks of the crew with their contexts          *)
(***************************************************************************)
\* the names each stage function is called with
Arguments(stage) ==
  CASE stage = "Chat" -> {"current_query"}
    [] stage = "Planner" -> {"parsed_input"}
    [] stage = "Discovery" -> {"parsed_input", "search_strategy"}
    [] stage = "Curator" -> {"activities", "parsed_input"}
    [] stage = "Summarizer" -> {"curated", "parsed_input"}

\* the name each stage's result is bound to
Produces(stage) ==
  CASE stage = "Chat" -> "parsed_input"
    [] stage = "Planner" -> "search_strategy"
    [] stage = "Discovery" -> "activities"
    [] stage = "Curator" -> "curated"
    [] stage = "Summarizer" -> "itinerary"

\* the value the session holds under a name
Local(name) ==
  CASE name = "parsed_input" -> parsed_input
    [] name = "search_strategy" -> search_strategy
    [] name = "activities" -> activities
    [] name = "curated" -> curated

\* the tasks of the crew, in the order the class defines them
CrewTasks ==
  <<"parse_task", "planning_task", "discovery_task", "curation_task", "budget_task",
    "summarization_task">>

\* the context list of each task: the tasks whose output it is given
Context(task) ==
  CASE task = "parse_task" -> {}
    [] task = "planning_task" -> {"parse_task"}
    [] task = "discovery_task" -> {"parse_task", "planning_task"}
    [] task = "curation_task" -> {"parse_task", "discovery_task"}
    [] task = "budget_task" -> {"parse_task", "curation_task"}
    [] task = "summarization_task" -> {"parse_task", "curation_task", "budget_task"}

(***************************************************************************)
(* The budget analysis of a location                                       *)
(***************************************************************************)
\* str.upper() on one character
UpperChar(c) ==
  IF \E k \in 1..Len(LowerLetters) : LowerLetters[k] = c
  THEN UpperLetters[CHOOSE k \in 1..Len(LowerLetters) : LowerLetters[k] = c]
  ELSE c

\* "seattle" as "SEATTLE"
Upper(s) == [i \in 1..Len(s) |-> UpperChar(s[i])]

\* "new york" as "New York"
Capitalized(s) ==
  [i \in 1..Len(s) |-> IF i = 1 \/ s[i - 1] = " " THEN UpperChar(s[i]) ELSE s[i]]

TableKeys == {LOCATION_CURRENCY[k].key : k \in 1..Len(LOCATION_CURRENCY)}

Seattle == <<"S", "e", "a", "t", "t", "l", "e">>

Paris == <<"P", "a", "r", "i", "s">>

\* locations the table does not hold
OtherLocations ==
  {<<"A", "t", "l", "a", "n", "t", "i", "s">>,
   Seattle \o <<",", " ", "W", "A">>,
   <<"P", "a", "r", "i", "s", "h">>,
   <<"n", "o", "t", " ", "s", "p", "e", "c", "i", "f", "i", "e", "d">>,
   <<" ">>, <<>>}

\* the table's cities as a caller may write them, and the others
LocationTexts ==
  TableKeys \cup {Capitalized(k) : k \in TableKeys} \cup {Upper(k) : k \in TableKeys}
    \cup {<<" ">> \o Capitalized(k) \o <<"\n">> : k \in TableKeys}
    \cup OtherLocations

\* analyze_itinerary_budget is called with a location, or with none
CallBudget(location) ==
  /\ ~budget_call.pending
  /\ budget_result = <<>>
  /\ budget_call' = [location |-> location, pending |-> TRUE]
  /\ UNCHANGED <<env, service, cost_call, cost_result, messages, pipeline_status, processing, current_query,
                 pc, parsed_input, search_strategy, activities, curated, itinerary,
                 error_shown, run_state, llm_calls, path, response, start_status,
                 budget_result, venue_call, venue_result>>

\* the currency analyze_itinerary_budget settles on
AnalyzeBudget ==
  /\ budget_call.pending
  /\ budget_result' = BudgetCurrency(budget_call.location)
  /\ budget_call' = [budget_call EXCEPT !.pending = FALSE]
  /\ UNCHANGED <<env, service, cost_call, cost_result, messages, pipeline_status, processing, current_query,
                 pc, parsed_input, search_strategy, activities, curated, itinerary,
                 error_shown, run_state, llm_calls, path, response, start_status,
                 venue_call, venue_result>>

NextBudget ==
  \/ \E t \in LocationTexts : CallBudget(Location(t))
  \/ CallBudget(NoLocation)
  \/ AnalyzeBudget

SpecBudget == Init /\ [][NextBudget]_vars

(***************************************************************************)
(* tools/venue_scraper.py and tools/crewai_tools.py: the address lookup    *)
(* and the enrichment of venues.  A value that may be None is a sequence:  *)
(* <<>> for None, <<v>> for the value v.                                    *)
(***************************************************************************)
\* the venues one enrichment call is followed with
MaxVenues == 2

\* what the search engine may answer: the request fails, or the page holds
\* these of an address and a phone number
GooglePages == {"request failed", "nothing", "phone", "address", "address and phone"}

\* what the directory may answer
YelpPages == {"request failed", "nothing", "address"}

\* scrape_google_search: None unless the page holds an address
scrape_google_search(page) ==
  IF page \in {"address", "address and phone"}
  THEN <<[address |-> <<"1919 Post Alley, Seattle, WA 98101">>,
          phone |-> IF page = "address and phone" THEN <<"(206) 555-0100">> ELSE <<>>,
          website |-> <<>>]>>
  ELSE <<>>

\* scrape_yelp_business: None unless the page holds an address element
scrape_yelp_business(page) ==
  IF page = "address"
  THEN <<[address |-> <<"1919 Post Alley Seattle">>, phone |-> <<>>, website |-> <<>>]>>
  ELSE <<>>

\* variant: get_venue_details without the assignment of None at its end
get_venue_details_keeps_default(venue_name, venue_type, google_page, yelp_page) ==
  LET result == [address |-> <<"Address not found">>, name |-> venue_name,
                 phone |-> <<>>, website |-> <<>>]
      google_data == scrape_google_search(google_page)
      yelp_data == scrape_yelp_business(yelp_page)
  IN  IF google_data # <<>> /\ google_data[1].address # <<>>
      THEN Return([result EXCEPT !.address = google_data[1].address,
                                 !.phone = google_data[1].phone,
                                 !.website = google_data[1].website],
                  "google", FALSE)
      ELSE IF venue_type = "restaurant" /\ yelp_data # <<>> /\ yelp_data[1].address # <<>>
      THEN Return([result EXCEPT !.address = yelp_data[1].address], "yelp", FALSE)
      ELSE Return(result, "not found", FALSE)

\* the dict get_venue_details returns; every path out of it assigns the
\* address, and no path raises: the scrapers catch what the requests raise
get_venue_details(venue_name, venue_type, google_page, yelp_page) ==
  LET result == [address |-> <<"Address not found">>, name |-> venue_name,
                 phone |-> <<>>, website |-> <<>>]
      google_data == scrape_google_search(google_page)
      yelp_data == scrape_yelp_business(yelp_page)
  IN  IF google_data # <<>> /\ google_data[1].address # <<>>
      THEN Return([result EXCEPT !.address = google_data[1].address,
                                 !.phone = google_data[1].phone,
                                 !.website = google_data[1].website],
                  "google", FALSE)
      ELSE IF venue_type = "restaurant" /\ yelp_data # <<>> /\ yelp_data[1].address # <<>>
      THEN Return([result EXCEPT !.address = yelp_data[1].address], "yelp", FALSE)
      ELSE Return([result EXCEPT !.address = <<>>], "not found", FALSE)

\* get_venue_address: the details as JSON, or the dict of the except branch
get_venue_address(venue_name, venue_type, google_page, yelp_page) ==
  LET details == get_venue_details(venue_name, venue_type, google_page, yelp_page)
  IN  IF details.exc = "none" THEN details.val
      ELSE [address |-> <<"Could not find address: ", details.exc>>, name |-> venue_name,
            phone |-> <<>>, website |-> <<>>]

\* a venue of venues_json: the keys it holds and their values
Venue(has, name, type, rating, address) ==
  [address |-> address, has |-> has, name |-> name, phone |-> "", rating |-> rating,
   type |-> type, website |-> ""]

\* the venues a call is tried with: a rated restaurant, a park, a venue that
\* comes with an address, and one without name and type
Venues ==
  {Venue({"name", "type", "rating"}, "Canlis", "restaurant", 46, ""),
   Venue({"name", "type"}, "Discovery Park", "outdoor", 0, ""),
   Venue({"name", "type", "address"}, "Pike Place Chowder", "restaurant", 0,
         "1530 Post Alley"),
   Venue({}, "", "", 0, "")}

\* one pass of the loop: the venue with what the lookup found
EnrichVenue(venue, google_page, yelp_page) ==
  LET venue_name == IF "name" \in venue.has THEN venue.name ELSE ""
      venue_type == IF "type" \in venue.has THEN venue.type ELSE "restaurant"
      details == get_venue_details(venue_name, venue_type, google_page, yelp_page).val
  IN  IF details.address = <<>> THEN venue
      ELSE LET addressed == [venue EXCEPT !.address = details.address[1],
                                          !.has = @ \cup {"address"}]
               phoned == IF details.phone = <<>> THEN addressed
                         ELSE [addressed EXCEPT !.phone = details.phone[1],
                                                !.has = @ \cup {"phone"}]
           IN  IF details.website = <<>> THEN phoned
               ELSE [phoned EXCEPT !.website = details.website[1],
                                   !.has = @ \cup {"website"}]

\* enrich_venues_with_addresses: the list of enriched venues, or the error
\* dict when venues_json holds no list of venues
enrich_venues_with_addresses(call, lookups) ==
  IF call.doc # "list"
  THEN [error |-> <<"Address enrichment failed: ", "AttributeError">>,
        venues |-> call.venues]
  ELSE [error |-> <<>>,
        venues |-> [i \in 1..Len(call.venues) |->
                      EnrichVenue(call.venues[i], lookups[i].google_page,
                                  lookups[i].yelp_page)]]

Lookups == [google_page : GooglePages, yelp_page : YelpPages]

VenueSeqs == UNION {[1..n -> Venues] : n \in 0..MaxVenues}

\* a tool is called: the enrichment with a list of venues or with an object
\* that wraps one, the address lookup with one venue
CallVenueTool(call) ==
  /\ venue_call = <<>>
  /\ venue_call' = <<call>>
  /\ UNCHANGED <<env, service, cost_call, cost_result, messages, pipeline_status, processing, current_query,
                 pc, parsed_input, search_strategy, activities, curated, itinerary,
                 error_shown, run_state, llm_calls, path, response, start_status,
                 budget_call, budget_result, venue_result>>

\* enrich_venues_with_addresses runs, each lookup meeting some page
EnrichVenues ==
  /\ venue_call # <<>> /\ venue_call[1].tool = "enrich"
  /\ venue_result = <<>>
  \* an object fails the first venue.get, before any lookup
  /\ \E lookups \in IF venue_call[1].doc = "list"
                     THEN [1..Len(venue_call[1].venues) -> Lookups] ELSE {<<>>} :
       venue_result' = <<[lookups |-> lookups,
                          out |-> enrich_venues_with_addresses(venue_call[1], lookups)]>>
  /\ UNCHANGED <<env, service, cost_call, cost_result, messages, pipeline_status, processing, current_query,
                 pc, parsed_input, search_strategy, activities, curated, itinerary,
                 error_shown, run_state, llm_calls, path, response, start_status,
                 budget_call, budget_result, venue_call>>

\* get_venue_address runs
GetVenueAddress ==
  /\ venue_call # <<>> /\ venue_call[1].tool = "address"
  /\ venue_result = <<>>
  /\ \E lookup \in Lookups :
       LET venue == venue_call[1].venues[1]
       IN  venue_result' =
             <<[lookups |-> <<lookup>>,
                out |-> get_venue_address(venue.name, venue.type, lookup.google_page,
                                          lookup.yelp_page)]>>
  /\ UNCHANGED <<env, service, cost_call, cost_result, messages, pipeline_status, processing, current_query,
                 pc, parsed_input, search_strategy, activities, curated, itinerary,
                 error_shown, run_state, llm_calls, path, response, start_status,
                 budget_call, budget_result, venue_call>>

NextVenue ==
  \/ \E venues \in VenueSeqs : \E doc \in {"list", "object"} :
       CallVenueTool([doc |-> doc, tool |-> "enrich", venues |-> venues])
  \/ \E venue \in Venues \ {Venue({}, "", "", 0, "")} :
       CallVenueTool([doc |-> "list", tool |-> "address", venues |-> <<venue>>])
  \/ EnrichVenues
  \/ GetVenueAddress

InitVenue ==
  /\ Init
  /\ env = [google |-> TRUE, openai |-> FALSE]
  /\ service = "plain"

SpecVenue == InitVenue /\ [][NextVenue]_vars

(***************************************************************************)
(* tools/budget_estimator.py and tools/crewai_tools.py: the cost of an     *)
(* itinerary.  Here a description is a sequence of words and phrases, and  *)
(* "word in details_lower" holds when the description holds that word.     *)
(***************************************************************************)
\* the longest activity list priced
MaxBudgetItems == 2

\* the largest group priced
MaxGroup == 2

\* COST_ESTIMATES[activity_type][category]: the range per person
COST_ESTIMATES(activity_type, category) ==
  CASE activity_type = "restaurant" /\ category = "budget" -> <<10, 20>>
    [] activity_type = "restaurant" /\ category = "moderate" -> <<20, 40>>
    [] activity_type = "restaurant" /\ category = "upscale" -> <<40, 80>>
    [] activity_type = "restaurant" /\ category = "fine_dining" -> <<80, 150>>
    [] activity_type = "movie" /\ category = "matinee" -> <<8, 12>>
    [] activity_type = "movie" /\ category = "evening" -> <<12, 18>>
    [] activity_type = "movie" /\ category = "premium" -> <<18, 25>>
    [] activity_type = "outdoor" /\ category = "free" -> <<0, 0>>
    [] activity_type = "outdoor" /\ category = "admission" -> <<5, 15>>
    [] activity_type = "outdoor" /\ category = "activity" -> <<20, 50>>
    [] activity_type = "event" /\ category = "free" -> <<0, 0>>
    [] activity_type = "event" /\ category = "ticketed" -> <<15, 50>>
    [] activity_type = "event" /\ category = "concert" -> <<30, 100>>
    [] activity_type = "event" /\ category = "premium" -> <<100, 300>>

\* str.lower() on a word of a description
WordLower(word) ==
  CASE word = "IMAX" -> "imax"
    [] word = "Free" -> "free"
    [] OTHER -> word

\* any(word in details.lower() for word in words)
AnyWord(details, words) == \E k \in 1..Len(details) : WordLower(details[k]) \in words

CostInfo(category, cost_range) ==
  [category |-> category, max_cost |-> cost_range[2], min_cost |-> cost_range[1]]

estimate_restaurant_cost(name, details, rating) ==
  LET category ==
        IF AnyWord(details, {"upscale", "fine dining", "michelin", "tasting menu", "prix fixe"})
        THEN "fine_dining"
        ELSE IF AnyWord(details, {"upscale", "elevated", "contemporary", "refined"})
        THEN "upscale"
        ELSE IF AnyWord(details, {"casual", "food hall", "quick", "counter"})
        THEN "budget"
        ELSE IF rating >= 45 THEN "upscale"
        ELSE IF rating >= 40 THEN "moderate"
        ELSE "budget"
  IN  CostInfo(category, COST_ESTIMATES("restaurant", category))

estimate_activity_cost(activity_type, name, details) ==
  IF activity_type = "movie"
  THEN LET category ==
             IF AnyWord(details, {"imax", "3d", "premium"}) THEN "premium"
             ELSE IF AnyWord(details, {"matinee", "afternoon"}) THEN "matinee"
             ELSE "evening"
       IN  CostInfo(category, COST_ESTIMATES("movie", category))
  ELSE IF activity_type = "outdoor"
  THEN LET category ==
             IF AnyWord(details, {"free", "trail", "walk", "hike", "park"}) THEN "free"
             ELSE IF AnyWord(details, {"admission", "ticket", "entry fee", "botanical", "garden"})
             THEN "admission"
             ELSE "activity"
       IN  CostInfo(category, COST_ESTIMATES("outdoor", category))
  ELSE IF activity_type = "event"
  THEN LET category ==
             IF AnyWord(details, {"free", "no admission", "no charge"}) THEN "free"
             ELSE IF AnyWord(details, {"concert", "band", "festival with tickets"})
             THEN "concert"
             ELSE IF AnyWord(details, {"ticket", "admission"}) THEN "ticketed"
             ELSE "free"
       IN  CostInfo(category, COST_ESTIMATES("event", category))
  ELSE CostInfo("moderate", <<15, 35>>)

\* the breakdown entry of one activity
BreakdownItem(activity, group_size) ==
  LET activity_type == IF "type" \in activity.has THEN activity.type ELSE "restaurant"
      name == IF "name" \in activity.has THEN activity.name ELSE <<"Unknown">>
      details == IF "details" \in activity.has THEN activity.details ELSE <<>>
      rating == IF "rating" \in activity.has THEN activity.rating ELSE 40
      cost_info == IF activity_type = "restaurant"
                   THEN estimate_restaurant_cost(name, details, rating)
                   ELSE estimate_activity_cost(activity_type, name, details)
      per_head == /\ activity_type \in {"restaurant", "movie", "event"}
                  /\ cost_info.category # "free"
  IN  [category |-> cost_info.category,
       max_per_person |-> cost_info.max_cost,
       min_per_person |-> cost_info.min_cost,
       name |-> name,
       total_max |-> IF per_head THEN cost_info.max_cost * group_size ELSE cost_info.max_cost,
       total_min |-> IF per_head THEN cost_info.min_cost * group_size ELSE cost_info.min_cost,
       type |-> activity_type]

RECURSIVE SumMin(_)
\* total_min += total_min_cost, over the breakdown
SumMin(breakdown) ==
  IF breakdown = <<>> THEN 0 ELSE breakdown[1].total_min + SumMin(Tail(breakdown))

RECURSIVE SumMax(_)
\* total_max += total_max_cost, over the breakdown
SumMax(breakdown) ==
  IF breakdown = <<>> THEN 0 ELSE breakdown[1].total_max + SumMax(Tail(breakdown))

analyze_itinerary_budget(items, group_size, location) ==
  LET breakdown == [k \in 1..Len(items) |-> BreakdownItem(items[k], group_size)]
  IN  [breakdown |-> breakdown,
       currency |-> BudgetCurrency(location),
       total_max |-> SumMax(breakdown),
       total_min |-> SumMin(breakdown)]

\* the cost of one breakdown entry as the tool words it
CostDisplay(item, group_size, symbol) ==
  IF item.total_min = 0 THEN <<"FREE">>
  ELSE IF group_size > 1
  THEN <<symbol, ToString(item.min_per_person), "-", symbol, ToString(item.max_per_person),
         "/person (", symbol, ToString(item.total_min), "-", symbol,
         ToString(item.total_max), " total)">>
  ELSE <<symbol, ToString(item.total_min), "-", symbol, ToString(item.total_max)>>

\* the tool: the analysis it made, if it got that far, and the JSON it returns
calculate_itinerary_budget(call) ==
  IF call.doc # "list" \/ HasNonDict(call.items)
  THEN [analysis |-> <<>>,
        out |-> [activities_with_costs |-> <<>>,
                 error |-> "Budget calculation failed",
                 total_cost_display |-> <<>>]]
  ELSE LET analysis == analyze_itinerary_budget(call.items, call.group_size, call.location)
           symbol == analysis.currency[1]
       IN  [analysis |-> <<analysis>>,
            out |-> [activities_with_costs |->
                       [k \in 1..Len(analysis.breakdown) |->
                          [cost_display |-> CostDisplay(analysis.breakdown[k],
                                                        call.group_size, symbol),
                           name |-> analysis.breakdown[k].name,
                           type |-> analysis.breakdown[k].type]],
                     error |-> "",
                     total_cost_display |->
                       <<symbol, ToString(analysis.total_min), "-", symbol,
                         ToString(analysis.total_max)>>]]

\* the activities priced: one of each cost category
Priced ==
  {Activity(<<"Canlis">>, "restaurant", 46, <<"fine dining">>),
   Activity(<<"Pike Place Chowder">>, "restaurant", 47, <<"casual", "seafood", "counter">>),
   Activity(<<"Local Diner">>, "restaurant", 38, <<"diner">>),
   [Activity(<<"Somewhere">>, "", 0, <<>>) EXCEPT !.has = {"name"}],
   Activity(<<"Dune: Part Two">>, "movie", 45, <<"IMAX", "evening">>),
   Activity(<<"Discovery Park">>, "outdoor", 48, <<"park", "with", "a", "trail">>),
   Activity(<<"Kayak Rental">>, "outdoor", 45, <<"kayak", "rental">>),
   Activity(<<"Botanical Garden">>, "outdoor", 44, <<"botanical", "garden">>),
   Activity(<<"Street Fair">>, "event", 45, <<"Free", "street", "festival">>),
   Activity(<<"Jazz Night">>, "event", 45, <<"concert">>),
   Activity(<<"City Museum">>, "museum", 40, <<>>)}

PricedSeqs == UNION {[1..n -> Priced] : n \in 0..MaxBudgetItems}

\* the arguments of the tool: a JSON list of activities or another document,
\* a group size, a location or none
CostCalls ==
  {[doc |-> "list", group_size |-> g, items |-> a, location |-> l] :
     g \in 0..MaxGroup, a \in PricedSeqs, l \in {NoLocation, Location(Seattle), Location(Paris)}}
    \cup {[doc |-> "object", group_size |-> 1, items |-> <<>>, location |-> NoLocation]}

CallCostTool(call) ==
  /\ cost_call = <<>>
  /\ cost_call' = <<call>>
  /\ UNCHANGED <<env, service, messages, pipeline_status, processing, current_query,
                 pc, parsed_input, search_strategy, activities, curated, itinerary,
                 error_shown, run_state, llm_calls, path, response, start_status,
                 budget_call, budget_result, venue_call, venue_result, cost_result>>

\* calculate_itinerary_budget runs
CalculateBudget ==
  /\ cost_call # <<>>
  /\ cost_result = <<>>
  /\ cost_result' = <<calculate_itinerary_budget(cost_call[1])>>
  /\ UNCHANGED <<env, service, messages, pipeline_status, processing, current_query,
                 pc, parsed_input, search_strategy, activities, curated, itinerary,
                 error_shown, run_state, llm_calls, path, response, start_status,
                 budget_call, budget_result, venue_call, venue_result, cost_call>>

NextCost ==
  \/ \E call \in CostCalls : CallCostTool(call)
  \/ CalculateBudget

SpecCost == InitVenue /\ [][NextCost]_vars

(***************************************************************************)
(* Properties                                                              *)
(***************************************************************************)
\* the stage function of `stage` has returned in this run
Returned(stage) == path[stage] \notin {"none", "raised"}

\* the request the run is about
RunQuery == messages[Len(messages)].content

\* the statuses read in stage order
StatusSeq == [i \in 1..Len(Stages) |-> pipeline_status[Stages[i]]]

\* C1: every Stage 1 response that is not the declared {date, location,
\* interests, context} object makes parse_user_input return the fixed
\* fallback record with the request as context; so whatever Stage 1
\* returned is the declared object or that record.
C1_MalformedGivesFallback ==
  (run_state = "Running" /\ Returned("Chat")) =>
     \/ /\ IsDict(parsed_input)
        /\ parsed_input.has = {"date", "location", "interests", "context"}
     \/ parsed_input =
          [categories |-> <<>>, context |-> current_query.text,
           curation_notes |-> "", date |-> "not specified",
           has |-> {"date", "location", "interests", "context"},
           interests |-> <<"general">>, items |-> <<>>, kind |-> "dict",
           location |-> "not specified", nulls |-> {}, priority |-> "",
           reasoning |-> "", selected |-> <<>>]

\* the Seattle request is being answered by a service whose every call fails
AllCallsFail == service = "failing" /\ messages # <<>> /\ RunQuery = <<SeattleQuery>>

\* C2 as stated: with every reasoning-service call failing (the credential
\* is set), the run on the Seattle request never ends in Error, and its
\* itinerary holds the header "Weekend Plan for this Saturday in Seattle".
C2_AllFailSeattleHeader ==
  (AllCallsFail /\ env.google) =>
     /\ run_state # "Error"
     /\ pc = "respond" =>
          Contains(itinerary, <<"Weekend Plan for ", "this Saturday", " in ", "Seattle">>)

\* C2 amended: with every reasoning-service call failing, the run ends in
\* Error only when the call of stage 1, 2 or 4 raised; otherwise it reaches
\* its answer with a non-empty text, which is the fixed "couldn't find
\* enough activities" message when the discovery call raised, and else the
\* template whose header is "Weekend Plan for not specified in not
\* specified" and which nowhere names Seattle as the location.
C2_AllFailDegrades ==
  AllCallsFail =>
     /\ run_state = "Error" =>
          \E n \in {"Chat", "Planner", "Curator"} : path[n] = "raised"
     /\ pc = "respond" =>
          /\ itinerary # <<>>
          /\ path["Discovery"] = "failed" => itinerary = NoActivitiesMessage
          /\ path["Discovery"] # "failed" =>
               /\ SubSeq(itinerary, 1, 5) =
                    <<"Your ", "Weekend Plan for ", "not specified", " in ", "not specified">>
               /\ ~Contains(itinerary, <<" in ", "Seattle">>)

C2_Witness ==
  /\ AllCallsFail
  /\ pc = "respond"
  /\ Contains(itinerary, <<"Weekend Plan for ", "not specified", " in ", "not specified">>)

\* C3: a stage that took its fallback path (the except branch, or the
\* result it gives without a call) hands the next stage a value the next
\* stage accepts: the next stage raises no AttributeError or TypeError over
\* it (a raise of the service itself is not a rejection of the input).
C3_FallbackFeedsNextStage ==
  \A i \in 1..(Len(Stages) - 1) :
     (path[Stages[i]] \in {"fallback", "failed", "guard"} /\ path[Stages[i + 1]] = "raised")
        => error_shown \notin {<<"Error: ", "AttributeError">>, <<"Error: ", "TypeError">>}

\* every stage that has a fallback took it, and the run reached its answer
C3_Witness ==
  /\ pc = "respond"
  /\ path = [n \in StageNames |-> "fallback"]

\* C4: given the empty candidate sequence, curate_activities returns
\* {selected: [], curation_notes: "No activities found to curate."} and
\* makes no reasoning-service call.
C4_EmptyCandidates ==
  [][(pc = "Curator:call" /\ activities.kind = "list" /\ activities.items = <<>>)
       => /\ pc' = "Summarizer"
          /\ curated'.selected = <<>>
          /\ curated'.curation_notes = "No activities found to curate."
          /\ curated'.has = {"selected", "curation_notes"}
          /\ llm_calls' = llm_calls]_vars

C4_Witness ==
  /\ pc = "Summarizer"
  /\ activities.kind = "list" /\ activities.items = <<>>
  /\ curated.curation_notes = "No activities found to curate."

Min(a, b) == IF a <= b THEN a ELSE b

\* C6: for a non-empty candidate sequence the fallback path of
\* curate_activities selects at most 5 and at least min(3, number of
\* candidates) entries.
C6_FallbackSize ==
  (path["Curator"] = "fallback" /\ activities.items # <<>>) =>
     /\ Len(curated.selected) <= 5
     /\ Len(curated.selected) >= Min(3, Len(activities.items))

\* six candidates of which the cap keeps five
C6_Witness ==
  /\ path["Curator"] = "fallback"
  /\ Len(activities.items) = 6
  /\ Len(curated.selected) = 5

\* C7: the fallback selection depends on the candidate sequence alone, and
\* the fallback run on its own selection returns that selection unchanged.
C7_FallbackIdempotent ==
  path["Curator"] = "fallback" =>
     /\ curated = FallbackCuration(activities.items)
     /\ FallbackSelection(curated.selected) = curated.selected

\* a selection that reorders its input and drops part of it
C7_Witness ==
  /\ path["Curator"] = "fallback"
  /\ Len(curated.selected) = 4
  /\ Len(activities.items) = 6
  /\ curated.selected[1] # activities.items[1]

\* the elements of a sequence
Range(seq) == {seq[i] : i \in 1..Len(seq)}

\* C8: the fallback strategy is the keyword table applied to the interests:
\* each category is there iff one of its keywords is an interest; when no
\* keyword matches the categories are restaurants and outdoor; categories is
\* never empty and priority is its first entry.
C8_KeywordTable ==
  path["Planner"] = "fallback" =>
     LET interests == IF "interests" \in parsed_input.has
                      THEN Range(parsed_input.interests) ELSE {}
         categories == search_strategy.categories
         restaurants == interests \cap {"dinner", "restaurant", "food"} # {}
         movies == interests \cap {"movie", "film", "cinema"} # {}
         events == interests \cap {"event", "concert", "festival"} # {}
         outdoor == interests \cap {"outdoor", "park", "nature", "hiking"} # {}
     IN  /\ categories # <<>>
         /\ search_strategy.priority = categories[1]
         /\ "hiking" \in interests => "outdoor" \in Range(categories)
         /\ IF restaurants \/ movies \/ events \/ outdoor
            THEN /\ "restaurants" \in Range(categories) <=> restaurants
                 /\ "movies" \in Range(categories) <=> movies
                 /\ "events" \in Range(categories) <=> events
                 /\ "outdoor" \in Range(categories) <=> outdoor
                 /\ Range(categories) \subseteq {"restaurants", "movies", "events", "outdoor"}
            ELSE categories = <<"restaurants", "outdoor">>

C8_Witness ==
  /\ path["Planner"] = "fallback"
  /\ parsed_input.interests = <<"hiking">>
  /\ search_strategy.categories = <<"outdoor">>
  /\ search_strategy.priority = "outdoor"

\* the location names a city of the table, whatever its case and the
\* whitespace around it
InTable(text) == \E k \in TableKeys : Strip(Lower(text)) = k

\* C9: "Seattle" maps to "$" and "USD", "Paris" to the euro sign and "EUR",
\* and a location the table does not hold, like a missing location, to the
\* default "$" and "USD".
C9_Currency ==
  (~budget_call.pending /\ budget_result # <<>>) =>
     LET location == budget_call.location
     IN  /\ (~location.none /\ location.text = Seattle) => budget_result = <<"$", "USD">>
         /\ (~location.none /\ location.text = Paris) => budget_result = <<"€", "EUR">>
         /\ (location.none \/ ~InTable(location.text)) => budget_result = <<"$", "USD">>

C9_Witness ==
  /\ ~budget_call.pending
  /\ ~budget_call.location.none
  /\ budget_call.location.text = Paris
  /\ budget_result = <<"€", "EUR">>

\* completed stages, then at most one active stage, then pending stages
InOrder(status) ==
  \E c \in 0..Len(status) : \E a \in 0..1 :
     /\ c + a <= Len(status)
     /\ \A i \in 1..Len(status) :
          status[i] = IF i <= c THEN "completed"
                      ELSE IF i <= c + a THEN "active" ELSE "pending"

\* C10 as stated: in every state of a run started with all five statuses
\* pending (a credential is set), its final state included, the statuses
\* are completed stages, then at most one active stage, then pending stages.
C10_AlwaysInOrder ==
  (start_status = AllPending /\ env.google /\ run_state \in {"Running", "Error"})
     => InOrder(StatusSeq)

\* the result the stage before stage i produced is at hand
ResultBefore(i) ==
  CASE i = 2 -> parsed_input # PyNone
    [] i = 3 -> search_strategy # PyNone
    [] i = 4 -> activities # PyNone
    [] i = 5 -> curated # PyNone

\* C10 amended: in a run started with all five statuses pending, until the
\* run ends the statuses are completed stages, then at most one active
\* stage, then pending stages; a stage is active or completed only with the
\* result of the stage before it at hand; a status changes only from pending
\* to active or from active to completed, one at a time.  When an exception
\* escapes a stage, the handler sets the status of Chat, the first stage, to
\* error and leaves the others as they were.
C10_InOrderWhileRunning ==
  /\ [](start_status = AllPending /\ run_state = "Running" =>
          /\ InOrder(StatusSeq)
          /\ \A i \in 2..Len(Stages) :
               pipeline_status[Stages[i]] # "pending" => ResultBefore(i))
  /\ [][(start_status = AllPending /\ run_state = "Running") =>
          /\ run_state' = "Running" =>
               \A n \in StageNames :
                  \/ pipeline_status'[n] = pipeline_status[n]
                  \/ /\ pipeline_status[n] = "pending" /\ pipeline_status'[n] = "active"
                     /\ \A m \in StageNames \ {n} : pipeline_status'[m] = pipeline_status[m]
                  \/ /\ pipeline_status[n] = "active" /\ pipeline_status'[n] = "completed"
                     /\ \A m \in StageNames \ {n} : pipeline_status'[m] = pipeline_status[m]
          /\ run_state' = "Error" =>
               pipeline_status' = [pipeline_status EXCEPT !["Chat"] = "error"]]_vars

\* the last stage is active after the four before it completed
C10_Witness ==
  /\ start_status = AllPending
  /\ run_state = "Running"
  /\ StatusSeq = <<"completed", "completed", "completed", "completed", "active">>

\* C11: when an exception escapes a stage, the stage that raised it is the
\* one whose status becomes error, the stages completed before it stay
\* completed, and the run is in the Error state.
C11_ErrorTagsFailedStage ==
  (run_state = "Error" /\ start_status = AllPending /\ env.google) =>
     \E i \in 1..Len(Stages) :
        /\ path[Stages[i]] = "raised"
        /\ pipeline_status[Stages[i]] = "error"
        /\ \A j \in 1..(i - 1) : pipeline_status[Stages[j]] = "completed"

\* C12: with neither credential set, the configuration failure comes before
\* any stage runs: every stage status stays pending and no call of the
\* reasoning service is attempted.
C12_NoCredentialNoStage ==
  (~env.google /\ ~env.openai) =>
     /\ pipeline_status = AllPending
     /\ llm_calls = {}

\* C13: every call of the reasoning service, whatever the stage, goes to the
\* Google model when the Google credential is set, and otherwise to the
\* OpenAI model when the OpenAI credential is set; no call goes to a
\* provider whose credential is not set.
C13_OneProviderRule ==
  \A c \in llm_calls :
     c.model = IF env.google THEN "gemini-2.0-flash"
               ELSE IF env.openai THEN "gpt-4-turbo-preview"
               ELSE "none"

\* C14: a response that is not the declared shape never ends the run in
\* Error: with a credential set, a run ends in Error only when the call of
\* the reasoning service itself raised.
C14_ShapeFailureRecovered ==
  (run_state = "Error" /\ (env.google \/ env.openai)) =>
     /\ response # <<>>
     /\ response[1].raises

\* what discover_activities makes of the answer text: the document in it
DiscoveryDocument == JsonLoads(StripFences(Strip(response[1].text)))

\* C15: the Discovery stage does not raise when the reasoning service fails:
\* an answer that is not parseable JSON gives exactly one candidate, named
\* "Explore {location}", of type outdoor and rated 4.5; a call that raises,
\* or an answer that fails otherwise, gives the empty sequence.
C15_DiscoveryNeverRaises ==
  /\ (run_state = "Error" /\ path["Discovery"] = "raised") => response = <<>>
  /\ pc = "Curator" =>
       /\ response # <<>>
       /\ response[1].raises => activities = PyList(<<>>)
       /\ (~response[1].raises /\ ~DiscoveryDocument.ok) =>
            /\ activities.kind = "list"
            /\ Len(activities.items) = 1
            /\ activities.items[1].has = {"name", "type", "rating", "details"}
            /\ Len(activities.items[1].name) = 2
            /\ activities.items[1].name[1] = "Explore "
            /\ "location" \in parsed_input.has =>
                 activities.items[1].name[2] = parsed_input.location
            /\ activities.items[1].type = "outdoor"
            /\ activities.items[1].rating = 45
       /\ (~response[1].raises /\ DiscoveryDocument.ok
             /\ DiscoveryDocument.val.kind = "number") => activities = PyList(<<>>)

\* the answer was prose, and the one candidate names the city of the request
C15_Witness ==
  /\ pc = "Curator"
  /\ response = <<Answer(<<"Sorry, I cannot help.">>)>>
  /\ activities.items[1].name = <<"Explore ", "Seattle">>

\* C16, its last part: for a non-empty candidate sequence, a parsed answer of
\* the reasoning service is never returned by curate_activities with more
\* than 5 selected entries.
C16_ParsedAtMostFive ==
  (/\ pc = "Summarizer"
   /\ path["Curator"] = "parsed"
   /\ activities.kind = "list" /\ activities.items # <<>>
   /\ curated.kind = "dict")
     => Len(curated.selected) <= 5

\* the enrichment of a list of venues has returned
Enriched ==
  /\ venue_result # <<>>
  /\ venue_call[1].tool = "enrich"
  /\ venue_call[1].doc = "list"

\* C17: whatever the lookups meet, the enrichment of a list of venues
\* returns a list of the same length and order, in which every venue holds
\* every key it came with, with the value it came with, and beyond them at
\* most address, phone and website.
C17_EnrichKeepsVenues ==
  Enriched =>
     LET venues == venue_call[1].venues
         out == venue_result[1].out
     IN  /\ out.error = <<>>
         /\ Len(out.venues) = Len(venues)
         /\ \A i \in 1..Len(venues) :
              /\ venues[i].has \subseteq out.venues[i].has
              /\ out.venues[i].has \ venues[i].has \subseteq {"address", "phone", "website"}
              /\ \A k \in venues[i].has : out.venues[i][k] = venues[i][k]

\* the lookup of a venue of this type finds an address on these pages
Finds(type, lookup) ==
  \/ lookup.google_page \in {"address", "address and phone"}
  \/ type = "restaurant" /\ lookup.yelp_page = "address"

\* C18: no lookup puts a placeholder where an address goes.  The address
\* get_venue_address returns is one a page held, and None when no page held
\* one or the request failed; an enriched venue gains an address only from a
\* page, and a phone or a website only together with such an address.
C18_NoPlaceholder ==
  venue_result # <<>> =>
     LET call == venue_call[1]
         out == venue_result[1].out
         lookups == venue_result[1].lookups
         scraped == {"1919 Post Alley, Seattle, WA 98101", "1919 Post Alley Seattle"}
     IN  /\ call.tool = "address" =>
              IF Finds(call.venues[1].type, lookups[1])
              THEN Len(out.address) = 1 /\ out.address[1] \in scraped
              ELSE out.address = <<>> /\ out.phone = <<>> /\ out.website = <<>>
         /\ (call.tool = "enrich" /\ call.doc = "list") =>
              \A i \in 1..Len(call.venues) :
                 LET venue == call.venues[i]
                     enriched == out.venues[i]
                     type == IF "type" \in venue.has THEN venue.type ELSE "restaurant"
                 IN  IF Finds(type, lookups[i])
                     THEN "address" \in enriched.has /\ enriched.address \in scraped
                     ELSE enriched = venue

\* the search request failed, the directory held nothing: no address
C18_Witness ==
  /\ venue_result # <<>>
  /\ venue_call[1].tool = "address"
  /\ venue_call[1].venues[1].type = "restaurant"
  /\ venue_result[1].lookups[1] = [google_page |-> "request failed", yelp_page |-> "nothing"]
  /\ venue_result[1].out.address = <<>>

\* what the exceptions of the model say: str(e)
ExceptionTexts == {"ValueError", "AttributeError", "TypeError", "ServiceError"}

\* C19: the message shown for a failed run does not embed the text of the
\* exception: no part of it is what the exception says.
C19_FixedErrorMessage ==
  (run_state = "Error" /\ env.google) =>
     \A i \in 1..Len(error_shown) : error_shown[i] \notin ExceptionTexts

\* C20: a run that ended in Error keeps nothing: the conversation ends with
\* the user's request, no assistant message after it; processing and
\* current_query are cleared and no result of a stage is left; the run does
\* not go on: the next thing that happens is a new request, which starts
\* again at the first stage.
C20_ErrorKeepsNothing ==
  /\ [](run_state = "Error" =>
          /\ messages[Len(messages)].role = "user"
          /\ ~processing
          /\ current_query = NoQuery
          /\ pc = "idle"
          /\ parsed_input = PyNone /\ search_strategy = PyNone
          /\ activities = PyNone /\ curated = PyNone /\ itinerary = <<>>)
  /\ [][run_state = "Error" =>
          /\ run_state' = "Running"
          /\ pc' = "Chat"
          /\ path' = NoPath
          /\ Len(messages') = Len(messages) + 1
          /\ messages'[Len(messages')].role = "user"]_vars

\* three stages had completed when the fourth raised
C20_Witness ==
  /\ run_state = "Error"
  /\ path["Curator"] = "raised"
  /\ path["Discovery"] = "parsed"
  /\ ~processing
  /\ Len(messages) = 1

\* the Summarizer is about to run on a curation result with a non-empty selection
NonEmptySelection ==
  /\ pc = "Summarizer:call"
  /\ curated.kind = "dict"
  /\ "selected" \in curated.has
  /\ "selected" \notin curated.nulls
  /\ curated.selected # <<>>

\* text is the template itinerary of the selection: the header with date and
\* location, one numbered line per entry in selection order, the notes, the
\* closing line
IsTemplateOf(text, selection, notes, date, location) ==
  /\ SubSeq(text, 1, 5) = <<"Your ", "Weekend Plan for ", date, " in ", location>>
  /\ \A i \in 1..Len(selection) :
        Contains(text, <<"\n", ToString(i), ". ", Emoji(selection[i]), " ">> \o selection[i].name)
  /\ ~Contains(text, <<"\n", ToString(Len(selection) + 1), ". ">>)
  /\ notes # "" => Contains(text, <<"Tip: ", notes>>)
  /\ SubSeq(text, Len(text) - 1, Len(text)) = <<"\n", "Have a great time!">>

\* C21: at the Presentation stage with a non-empty selection the stage
\* never ends the run in Error, and whenever its reasoning-service call
\* raises, the itinerary is the template: the header with the date and the
\* location, one numbered line per selected activity in selection order,
\* the curation notes and the closing line (a date or location the record
\* lacks reads "your chosen date", "your area").
C21_AnyExceptionGivesTemplate ==
  [][NonEmptySelection =>
       /\ pc' = "respond"
       /\ (response' # <<>> /\ response'[1].raises) =>
            IsTemplateOf(itinerary', curated.selected, curated.curation_notes,
                         IF "date" \in parsed_input.has
                         THEN parsed_input.date ELSE "your chosen date",
                         IF "location" \in parsed_input.has
                         THEN parsed_input.location ELSE "your area")]_vars

\* the positions where a description line of the template starts
DescriptionStarts(text) ==
  {i \in 2..Len(text) : text[i] = "   " /\ text[i - 1] = "\n"}

\* the k-th description the template renders, without its indent
ShownDescription(text, k) ==
  LET starts == DescriptionStarts(text)
      i == CHOOSE p \in starts : Cardinality({q \in starts : q < p}) = k - 1
      j == Find(text, i, <<"\n">>)
  IN  SubSeq(text, i + 1, j - 1)

\* the entries of a selection that hold a non-empty description
WithDetails(selection) ==
  SelectSeq(selection, LAMBDA a : "details" \in a.has /\ a.details # <<>>)

\* C22: in the fallback itinerary a description of at most 150 characters
\* is rendered unchanged and a longer one as its first 150 characters
\* followed by "...", so no rendered description exceeds 153 characters.
C22_DescriptionCap ==
  (pc = "respond" /\ path["Summarizer"] = "fallback") =>
     LET described == WithDetails(curated.selected)
     IN  /\ Cardinality(DescriptionStarts(itinerary)) = Len(described)
         /\ \A k \in 1..Len(described) :
               LET details == described[k].details
                   shown == ShownDescription(itinerary, k)
               IN  /\ Len(details) <= 150 => shown = details
                   /\ Len(details) > 150 =>
                        shown = SubSeq(details, 1, 150) \o <<".", ".", ".">>
                   /\ Len(shown) <= 153

\* a description of exactly 150 characters next to one of 151
C22_Witness ==
  /\ pc = "respond"
  /\ path["Summarizer"] = "fallback"
  /\ Len(curated.selected) = 2
  /\ Len(curated.selected[1].details) = 150
  /\ Len(curated.selected[2].details) = 151
  /\ Contains(itinerary, <<"c", ".", ".", ".", "\n">>)

\* the position of a stage in the fixed order
StageIndex(stage) == CHOOSE i \in 1..Len(Stages) : Stages[i] = stage

\* the position of a task in the crew
TaskIndex(task) == CHOOSE i \in 1..Len(CrewTasks) : CrewTasks[i] = task

RECURSIVE DependsOn(_, _)
\* the tasks reached from `task` along at most n context links
DependsOn(task, n) ==
  IF n = 0 THEN {}
  ELSE Context(task) \cup UNION {DependsOn(t, n - 1) : t \in Context(task)}

\* the stage whose call the block stands at, if any
AtCall(stage) == pc = stage \o ":call"

\* C23: data flows strictly forward.  Every stage function is called with
\* the request or the parsed record and with results of stages earlier in
\* the order; when a stage is called no result of that stage or of a later
\* one exists yet in the run (so no stage reads a later output and none
\* runs twice) and every earlier stage has returned; every task of the crew
\* has only earlier tasks in its context, and no task depends on itself.
C23_ForwardOnly ==
  /\ \A stage \in StageNames :
        /\ Arguments(stage) \subseteq
             {"current_query", "parsed_input"}
               \cup {Produces(n) : n \in {m \in StageNames : StageIndex(m) < StageIndex(stage)}}
        /\ AtCall(stage) =>
             \A n \in StageNames :
                IF StageIndex(n) < StageIndex(stage)
                THEN Returned(n)
                ELSE /\ path[n] = "none"
                     /\ IF n = "Summarizer" THEN itinerary = <<>>
                        ELSE Local(Produces(n)) = PyNone
  /\ \A task \in Range(CrewTasks) :
        /\ \A t \in Context(task) : TaskIndex(t) < TaskIndex(task)
        /\ task \notin DependsOn(task, Len(CrewTasks))

\* a second run of the session has gone through all five stages
C23_Witness ==
  /\ pc = "respond"
  /\ RunsStarted = 2
  /\ \A n \in StageNames : Returned(n)
  /\ itinerary # <<>>

\* the documents of the shape a stage declares
ShapedPayloads(stage) ==
  CASE stage = "Chat" -> {"{intent}", "{intent quoting a fence}"}
    [] stage = "Planner" -> {"{strategy}"}
    [] stage = "Discovery" -> {"[activities]"}
    [] stage = "Curator" -> {"{curation}"}

\* the stage has just returned and the block stands before the next one
JustReturned(stage) ==
  /\ run_state = "Running"
  /\ Returned(stage)
  /\ pc = Stages[StageIndex(stage) + 1]
  /\ response # <<>>
  /\ ~response[1].raises

\* C24: fence stripping is transparent.  When the response of stage 1, 2, 3
\* or 4 is a document of the declared shape, bare or wrapped in triple
\* backticks with or without the "json" tag, the stage returns the value
\* of that document, also when a string of the document holds backticks.
C24_FencesTransparent ==
  \A stage \in {"Chat", "Planner", "Discovery", "Curator"} :
     \A p \in ShapedPayloads(stage) :
        (JustReturned(stage)
           /\ response[1].text \in
                {Doc(p),
                 <<Fence, JsonTag, "\n">> \o Doc(p) \o <<"\n", Fence>>,
                 <<Fence, "\n">> \o Doc(p) \o <<"\n", Fence>>})
          => Local(Produces(stage)) = JsonValue(p)

\* the place of candidate i in the order by rating descending, ties in input
\* order: behind every higher rated candidate and every equal one before it
RankOf(cands, i) ==
  Cardinality({j \in 1..Len(cands) : RatingOf(cands[j]) > RatingOf(cands[i])})
    + Cardinality({j \in 1..(i - 1) : RatingOf(cands[j]) = RatingOf(cands[i])}) + 1

\* the candidates ordered by rating descending, ties keeping input order
ByRatingStable(cands) ==
  [k \in 1..Len(cands) |-> cands[CHOOSE i \in 1..Len(cands) : RankOf(cands, i) = k]]

RECURSIVE GreedyUpTo(_, _)
\* the reference rule over the first k ordered candidates: the k-th is
\* appended iff fewer than 5 are selected and its type is not among the
\* selected types or fewer than 3 are selected
GreedyUpTo(ordered, k) ==
  IF k = 0 THEN <<>>
  ELSE LET before == GreedyUpTo(ordered, k - 1)
           types == {TypeOf(before[i]) : i \in 1..Len(before)}
       IN  IF /\ Len(before) < 5
              /\ (TypeOf(ordered[k]) \notin types \/ Len(before) < 3)
           THEN Append(before, ordered[k])
           ELSE before

\* sub is seq with some entries left out: there are places in seq, strictly
\* increasing, that hold the entries of sub
RECURSIVE IsSubsequence(_, _)
IsSubsequence(sub, seq) ==
  IF sub = <<>> THEN TRUE
  ELSE IF seq = <<>> THEN FALSE
  ELSE IF sub[1] = seq[1] THEN IsSubsequence(Tail(sub), Tail(seq))
  ELSE IsSubsequence(sub, Tail(seq))

\* C25: the fallback selection is the reference greedy rule over the
\* candidates ordered by rating descending (a missing rating is 0, ties keep
\* input order); it is a subsequence of the ordered candidates, its ratings
\* never increase, each entry is a candidate, and it starts with the three
\* highest rated candidates (all of them when there are fewer).
C25_GreedyReference ==
  path["Curator"] = "fallback" =>
     LET cands == activities.items
         ordered == ByRatingStable(cands)
         selected == curated.selected
     IN  /\ selected = GreedyUpTo(ordered, Len(ordered))
         /\ IsSubsequence(selected, ordered)
         /\ \A i \in 1..(Len(selected) - 1) :
               RatingOf(selected[i]) >= RatingOf(selected[i + 1])
         /\ \A i \in 1..Len(selected) : selected[i] \in Range(cands)
         /\ \A k \in 1..Min(3, Len(cands)) : selected[k] = ordered[k]

\* six candidates of which the best three share a type with the fifth, which
\* is passed over, and whose order was not by rating
C25_Witness ==
  /\ path["Curator"] = "fallback"
  /\ Len(activities.items) = 6
  /\ \E i \in 1..5 : RatingOf(activities.items[i]) < RatingOf(activities.items[i + 1])
  /\ Len(curated.selected) = 4
  /\ TypeOf(curated.selected[1]) = TypeOf(curated.selected[3])
  /\ TypeOf(curated.selected[4]) # TypeOf(curated.selected[1])

\* the types of the entries of a sequence (an entry without type has None)
TypesOf(entries) == {TypeOf(entries[i]) : i \in 1..Len(entries)}

\* C28: the fallback selection keeps type variety: it covers at least
\* min(3, number of distinct candidate types) types, so at least two when
\* the candidates hold two, and every entry after the third has a type that
\* no entry selected before it has.
C28_FallbackVariety ==
  path["Curator"] = "fallback" =>
     LET cands == activities.items
         selected == curated.selected
     IN  /\ Cardinality(TypesOf(cands)) >= 2 => Cardinality(TypesOf(selected)) >= 2
         /\ Cardinality(TypesOf(selected)) >= Min(3, Cardinality(TypesOf(cands)))
         /\ \A k \in 4..Len(selected) :
               TypeOf(selected[k]) \notin TypesOf(SubSeq(selected, 1, k - 1))

\* the three best candidates are of one type, and the selection goes on to
\* take two further types while passing over a fourth of the first type
C28_Witness ==
  /\ path["Curator"] = "fallback"
  /\ Len(activities.items) = 6
  /\ Len(curated.selected) = 5
  /\ Cardinality(TypesOf(SubSeq(curated.selected, 1, 3))) = 1
  /\ Cardinality(TypesOf(curated.selected)) = 3
  /\ Cardinality(TypesOf(activities.items)) = 3

\* C29: the budget tool shows an activity's cost as FREE exactly when its
\* estimated range per person is 0 to 0, whatever the group size (0
\* included) and the location; the totals are the sums of the activities'
\* totals, and the lower total is at most the upper.
C29_FreeIffZeroRange ==
  (cost_result # <<>> /\ cost_result[1].analysis # <<>>) =>
     LET analysis == cost_result[1].analysis[1]
         shown == cost_result[1].out.activities_with_costs
     IN  /\ Len(shown) = Len(analysis.breakdown)
         /\ \A k \in 1..Len(shown) :
               shown[k].cost_display = <<"FREE">>
                 <=> /\ analysis.breakdown[k].min_per_person = 0
                     /\ analysis.breakdown[k].max_per_person = 0
         /\ analysis.total_min <= analysis.total_max
         /\ analysis.total_min = SumMin(analysis.breakdown)
         /\ analysis.total_max = SumMax(analysis.breakdown)

\* the stages whose status is active
ActiveStages == {n \in StageNames : pipeline_status[n] = "active"}

\* C26: in every state of a session (the credential is set), over any
\* sequence of runs, at most one stage has status active and every run
\* began with all five statuses pending.
C26_OneActiveFreshStart ==
  env.google =>
     /\ Cardinality(ActiveStages) <= 1
     /\ start_status = AllPending

\* C27: processing is true iff current_query is a non-empty string; a
\* request is taken (a user message is added) only while processing is
\* false, so runs do not overlap; and every run that starts clears
\* processing again, ending in Done or Error, given that each stage call
\* returns or raises.
C27_ProcessingAndQuery ==
  /\ [](processing <=> (~current_query.none /\ current_query.text # <<>>))
  /\ [][Len(messages') > Len(messages) /\ messages'[Len(messages')].role = "user"
          => ~processing /\ processing']_vars
  /\ [][processing /\ ~processing' => run_state' \in {"Done", "Error"}]_vars
  /\ (processing ~> ~processing)

\* a second request was taken after the first run had ended in Error, and
\* its run has ended too
C27_Witness ==
  /\ RunsStarted = 2
  /\ Len(messages) = 3
  /\ messages[2].role = "user"
  /\ run_state = "Done"
  /\ ~processing
  /\ current_query.none

\* C30: Discovery names no city the parsed record does not hold: the
\* candidate of its fallback is called "Explore " and the record's own
\* location, and for a record without location it names no built-in city.
C30_NoDefaultCity ==
  (run_state = "Running" /\ path["Discovery"] = "fallback"
     /\ pc \in {"Curator", "Curator:call"}) =>
     LET named == activities.items[1].name[2]
     IN  IF "location" \in parsed_input.has
         THEN named = parsed_input.location
         ELSE named # "New York"

====
